---- MODULE Spec2Model ----
(***************************************************************************)
(* Model of the revtrust business-rules engine:                            *)
(*   backend/app/utils/rule_operators.py        operator library           *)
(*   backend/app/utils/rule_evaluator.py        RuleEvaluator              *)
(*   backend/app/utils/rules_loader.py          RulesLoader and            *)
(*                                              ContextualRulesLoader      *)
(*   backend/app/utils/business_rules_engine.py BusinessRulesEngine        *)
(*                                                                         *)
(* Python values are modelled as follows.                                  *)
(*   str       a sequence of one-character strings wherever the code      *)
(*             inspects characters (lower, strip, split, capitalize);      *)
(*             a TLA+ string where the code only compares it (rule ids,    *)
(*             operator names, categories, owners).                        *)
(*   a deal field value or a threshold is a tagged record:                 *)
(*             [t |-> "none"]                         None                 *)
(*             [t |-> "str", v |-> chars]             a str that is no     *)
(*                                                    ISO-8601 date        *)
(*             [t |-> "num", v |-> n]                 an int               *)
(*             [t |-> "list", v |-> <<values>>]       a list               *)
(*             [t |-> "isostr", tick |-> k, tz |-> b] a str holding the    *)
(*                  ISO-8601 text of the instant k (in ticks, tick 0 is    *)
(*                  midnight of the evaluation day), with a timezone       *)
(*                  suffix (Z or +hh:mm) iff b                             *)
(*   dict      a function; d.get(k) is Get(d, k).                          *)
(*   a call that may raise returns "True", "False" or "Raise".             *)
(***************************************************************************)
EXTENDS Integers, Sequences, FiniteSets, TLC

VARIABLES
    now,            \* datetime.now() of the evaluation instant, in ticks
    rules,          \* RulesLoader.rules of the engine's loader
    deals_data,     \* argument of the last analyze_deals call
    analysis,       \* what the last analyze_deals call returned (or raised)
    eval_rule,      \* argument of the last evaluate_rule call (rule)
    eval_deal,      \* argument of the last evaluate_rule / evaluate_condition call
    eval_cond,      \* argument of the last evaluate_condition call
    eval_out,       \* what the last evaluate_rule / evaluate_condition returned
    db,             \* rows of the override and custom-rule tables
    global_rules,   \* ContextualRulesLoader.global_rules
    custom_rules,   \* ContextualRulesLoader.custom_rules
    overrides,      \* ContextualRulesLoader.overrides
    ctx,            \* (user_id, org_id) of the last load_context call
    effective,      \* what the last get_effective_rules call returned
    eval_op,        \* the last evaluate_operator call: its arguments and result
    score_call,     \* the last health score computation: the tallies and the score
    analysis_again, \* what a second analyze_deals call on the same list returned
    plan_call,      \* the last get_remediation_plan call: its arguments and the plan
    tasks,          \* the concurrent analyze_deals calls: deals, position, results so far, result
    loading         \* the load_context calls on one loader: context, await reached, overlap

\* the variables of the calls made on the operators directly
call_vars == <<eval_op, score_call, analysis_again, plan_call, tasks, loading>>

vars == <<now, rules, deals_data, analysis, eval_rule, eval_deal, eval_cond,
          eval_out, db, global_rules, custom_rules, overrides, ctx, effective,
          call_vars>>

-----------------------------------------------------------------------------
(* Bounds of the model.                                                    *)

MaxDeals == 4          \* longest deal list given to analyze_deals
TicksPerDay == 2       \* clock resolution: ticks in one day
MaxCustomRows == 3     \* most rows of the customrule table
MaxDepth == 2
MaxBatch == 2         \* longest deal list of a repeated or concurrent analysis
MaxViolations == 3    \* longest violation list of a remediation plan
MaxTally == 4         \* largest severity total of a health score computation          \* deepest nesting of all/any in a condition

-----------------------------------------------------------------------------
(* Python str methods, on sequences of characters.                         *)

UpperAlpha == <<"A","B","C","D","E","F","G","H","I","J","K","L","M",
                "N","O","P","Q","R","S","T","U","V","W","X","Y","Z">>
LowerAlpha == <<"a","b","c","d","e","f","g","h","i","j","k","l","m",
                "n","o","p","q","r","s","t","u","v","w","x","y","z">>
Digits == <<"0","1","2","3","4","5","6","7","8","9">>
Whitespace == {" ", "\t", "\n"}

\* the lower-case and upper-case forms of the letters
LowerOf == [c \in {UpperAlpha[i] : i \in DOMAIN UpperAlpha} |->
               LowerAlpha[CHOOSE i \in DOMAIN UpperAlpha : UpperAlpha[i] = c]]
UpperOf == [c \in {LowerAlpha[i] : i \in DOMAIN LowerAlpha} |->
               UpperAlpha[CHOOSE i \in DOMAIN LowerAlpha : LowerAlpha[i] = c]]

char_lower(c) == IF c \in DOMAIN LowerOf THEN LowerOf[c] ELSE c

char_upper(c) == IF c \in DOMAIN UpperOf THEN UpperOf[c] ELSE c

\* s.lower()
str_lower(s) == [i \in 1..Len(s) |-> char_lower(s[i])]

\* s.strip()
str_strip(s) ==
    LET keep == {i \in 1..Len(s) : s[i] \notin Whitespace}
    IN  IF keep = {} THEN <<>>
        ELSE LET lo == CHOOSE i \in keep : \A j \in keep : i <= j
                 hi == CHOOSE i \in keep : \A j \in keep : j <= i
             IN  SubSeq(s, lo, hi)

\* w.capitalize(): first character upper-cased, the rest lower-cased
str_capitalize(w) ==
    [i \in 1..Len(w) |-> IF i = 1 THEN char_upper(w[i]) ELSE char_lower(w[i])]

\* s.split(sep) for a one-character separator: the list of words
RECURSIVE str_split(_, _)
str_split(s, sep) ==
    IF \A i \in 1..Len(s) : s[i] # sep THEN <<s>>
    ELSE LET p == CHOOSE i \in 1..Len(s) :
                      s[i] = sep /\ \A j \in 1..(i - 1) : s[j] # sep
         IN  <<SubSeq(s, 1, p - 1)>> \o str_split(SubSeq(s, p + 1, Len(s)), sep)

\* ''.join(words)
RECURSIVE str_join(_)
str_join(words) ==
    IF words = <<>> THEN <<>> ELSE Head(words) \o str_join(Tail(words))

\* sep.join(words) for a separator given as characters
RECURSIVE str_join_sep(_, _)
str_join_sep(words, sep) ==
    IF words = <<>> THEN <<>>
    ELSE IF Len(words) = 1 THEN Head(words)
    ELSE Head(words) \o sep \o str_join_sep(Tail(words), sep)

\* str(n) for an int n >= 0
RECURSIVE int_str(_)
int_str(n) ==
    IF n < 10 THEN <<Digits[n + 1]>>
    ELSE int_str(n \div 10) \o <<Digits[(n % 10) + 1]>>

\* the strings float() accepts, of those the model builds: after strip, one
\* or more decimal digits
is_digits(s) ==
    /\ Len(s) > 0
    /\ \A i \in 1..Len(s) : \E d \in DOMAIN Digits : Digits[d] = s[i]

RECURSIVE digits_value(_)
digits_value(s) ==
    IF s = <<>> THEN 0
    ELSE 10 * digits_value(SubSeq(s, 1, Len(s) - 1))
         + ((CHOOSE d \in DOMAIN Digits : Digits[d] = s[Len(s)]) - 1)

-----------------------------------------------------------------------------
(* Python values.                                                          *)

None == [t |-> "none"]
Str(s) == [t |-> "str", v |-> s]
Num(n) == [t |-> "num", v |-> n]
List(l) == [t |-> "list", v |-> l]
IsoStr(k, z) == [t |-> "isostr", tick |-> k, tz |-> z]

is_str(x) == x.t \in {"str", "isostr"}

\* a == b of two Python values (values of different types are unequal)
py_eq(a, b) == a.t = b.t /\ a = b

\* bool(x)
truthy(x) ==
    CASE x.t = "none" -> FALSE
      [] x.t = "str" -> x.v # <<>>
      [] x.t = "num" -> x.v # 0
      [] x.t = "list" -> x.v # <<>>
      [] OTHER -> TRUE

\* d.get(k) and d.get(k, default) of a dict d
GetOr(d, k, default) == IF k \in DOMAIN d THEN d[k] ELSE default
Get(d, k) == GetOr(d, k, None)

\* a or b
py_or(a, b) == IF truthy(a) THEN a ELSE b

\* str(x) of a scalar value: a str value
py_str(x) ==
    CASE x.t = "none" -> Str(<<"N","o","n","e">>)
      [] x.t = "num" -> Str(int_str(x.v))
      [] OTHER -> x

\* F applied to the value of x: x is evaluated once, as a Python call
\* evaluates its argument before the body runs
Bind(x, F(_)) == CHOOSE y \in {F(v) : v \in {x}} : TRUE

-----------------------------------------------------------------------------
(* rule_operators.py                                                       *)

True == "True"
False == "False"
Raise == "Raise"
Bool(b) == IF b THEN True ELSE False

\* datetime.fromisoformat(value.replace('Z', '+00:00')) of a str value: the
\* datetime [ok, tick, aware], or ValueError (ok = FALSE)
fromisoformat(value) ==
    IF value.t = "isostr" THEN [ok |-> TRUE, tick |-> value.tick, aware |-> value.tz]
    ELSE [ok |-> FALSE]

\* d.date() as a day number
date(tick) == tick \div TicksPerDay

\* timedelta(days=days), in ticks
timedelta(days) == days * TicksPerDay

is_empty(value) ==
    IF value.t = "none" THEN True
    ELSE IF is_str(value)
         THEN Bool(value.t = "str" /\ Len(str_strip(value.v)) = 0)
    ELSE False

is_null_or_zero(value) ==
    IF value.t = "none" THEN True
    ELSE IF value.t = "num" THEN Bool(value.v = 0)
    ELSE False

is_past(value, clock) ==
    IF value.t = "none" THEN False
    ELSE IF is_str(value)
         THEN IF ~fromisoformat(value).ok THEN False
              ELSE Bool(date(fromisoformat(value).tick) < date(clock))
    ELSE Raise                      \* AttributeError: no date()

\* the comparisons of a parsed value with a naive datetime: a naive datetime
\* compares by instant, an aware one raises TypeError
older_than_days(value, days, clock) ==
    IF value.t = "none" THEN False
    ELSE IF is_str(value) /\ ~fromisoformat(value).ok THEN False
    ELSE IF days.t # "num" THEN Raise               \* timedelta(days=...)
    ELSE IF ~is_str(value) THEN Raise               \* int < datetime
    ELSE IF fromisoformat(value).aware THEN Raise
    ELSE Bool(fromisoformat(value).tick < clock - timedelta(days.v))

within_days(value, days, clock) ==
    IF value.t = "none" THEN False
    ELSE IF is_str(value) /\ ~fromisoformat(value).ok THEN False
    ELSE IF days.t # "num" THEN Raise
    ELSE IF ~is_str(value) THEN Raise
    ELSE IF fromisoformat(value).aware THEN Raise
    ELSE Bool(/\ clock <= fromisoformat(value).tick
              /\ fromisoformat(value).tick <= clock + timedelta(days.v))

more_than_days_away(value, days, clock) ==
    IF value.t = "none" THEN False
    ELSE IF is_str(value) /\ ~fromisoformat(value).ok THEN False
    ELSE IF days.t # "num" THEN Raise
    ELSE IF ~is_str(value) THEN Raise
    ELSE IF fromisoformat(value).aware THEN Raise
    ELSE Bool(fromisoformat(value).tick > clock + timedelta(days.v))

\* float(value): the number [ok, v], or ValueError / TypeError (ok = FALSE)
py_float(value) ==
    CASE value.t = "num" -> [ok |-> TRUE, v |-> value.v]
      [] value.t = "str" ->
            IF is_digits(str_strip(value.v))
            THEN [ok |-> TRUE, v |-> digits_value(str_strip(value.v))]
            ELSE [ok |-> FALSE]
      [] OTHER -> [ok |-> FALSE]

greater_than(value, threshold) ==
    IF value.t = "none" THEN False
    ELSE IF ~py_float(value).ok THEN False
    ELSE IF threshold.t # "num" THEN False          \* TypeError, caught
    ELSE Bool(py_float(value).v > threshold.v)

less_than(value, threshold) ==
    IF value.t = "none" THEN False
    ELSE IF ~py_float(value).ok THEN False
    ELSE IF threshold.t # "num" THEN False
    ELSE Bool(py_float(value).v < threshold.v)

equals(value, target) ==
    IF value.t = "none" /\ target.t = "none" THEN True
    ELSE IF value.t = "none" \/ target.t = "none" THEN False
    ELSE IF value.t = "str" /\ target.t = "str"
         THEN Bool(str_lower(str_strip(value.v)) = str_lower(str_strip(target.v)))
    ELSE Bool(py_eq(value, target))

in_list(value, values) ==
    IF value.t = "none" THEN False
    ELSE IF is_str(value)
         THEN CASE values.t = "list" ->
                     Bool(\E i \in 1..Len(values.v) :
                            /\ values.v[i].t = "str" /\ value.t = "str"
                            /\ str_lower(str_strip(values.v[i].v))
                                 = str_lower(str_strip(value.v)))
                [] values.t = "str" ->          \* iterates the characters
                     Bool(\E i \in 1..Len(values.v) :
                            /\ value.t = "str"
                            /\ str_lower(str_strip(<<values.v[i]>>))
                                 = str_lower(str_strip(value.v)))
                [] OTHER -> Raise               \* not iterable
    ELSE CASE values.t = "list" ->
                Bool(\E i \in 1..Len(values.v) : py_eq(values.v[i], value))
           [] OTHER -> Raise

OPERATORS == {"is_empty", "is_null_or_zero", "is_past", "older_than_days",
              "within_days", "more_than_days_away", "greater_than",
              "less_than", "equals", "in"}

op_func(operator, value, threshold, clock) ==
    CASE operator = "older_than_days" -> older_than_days(value, threshold, clock)
      [] operator = "within_days" -> within_days(value, threshold, clock)
      [] operator = "more_than_days_away" -> more_than_days_away(value, threshold, clock)
      [] operator = "greater_than" -> greater_than(value, threshold)
      [] operator = "less_than" -> less_than(value, threshold)
      [] operator = "equals" -> equals(value, threshold)
      [] operator = "in" -> in_list(value, threshold)

\* evaluate_operator without the test of the threshold: the comparison with
\* None inside the operator fails and reads as false
evaluate_operator_unchecked(operator, value, threshold, clock) ==
    IF operator \notin OPERATORS THEN Raise
    ELSE IF operator = "is_empty" THEN is_empty(value)
    ELSE IF operator = "is_null_or_zero" THEN is_null_or_zero(value)
    ELSE IF operator = "is_past" THEN is_past(value, clock)
    ELSE IF threshold.t = "none" THEN False
    ELSE op_func(operator, value, threshold, clock)

evaluate_operator(operator, value, threshold, clock) ==
    IF operator \notin OPERATORS THEN Raise
    ELSE IF operator = "is_empty" THEN is_empty(value)
    ELSE IF operator = "is_null_or_zero" THEN is_null_or_zero(value)
    ELSE IF operator = "is_past" THEN is_past(value, clock)
    ELSE IF threshold.t = "none" THEN Raise
    ELSE op_func(operator, value, threshold, clock)

-----------------------------------------------------------------------------
(* rule_evaluator.py                                                       *)

\* all(...) and any(...) over a generator whose items may raise: the items
\* are produced in order and the built-in stops at the first deciding one
py_all(results) ==
    IF \A i \in 1..Len(results) : results[i] = True THEN True
    ELSE results[CHOOSE i \in 1..Len(results) :
                    results[i] # True /\ \A j \in 1..(i - 1) : results[j] = True]

py_any_skipping(results) ==
    IF \E i \in 1..Len(results) : results[i] = True THEN True
    ELSE IF \E i \in 1..Len(results) : results[i] = Raise THEN Raise
    ELSE False

py_any(results) ==
    IF \A i \in 1..Len(results) : results[i] = False THEN False
    ELSE results[CHOOSE i \in 1..Len(results) :
                    results[i] # False /\ \A j \in 1..(i - 1) : results[j] = False]

\* the camelCase variant of a snake_case field name
camel_field(field) ==
    LET words == str_split(field, "_")
    IN  str_join([i \in 1..Len(words) |->
                    IF i > 1 THEN str_capitalize(words[i]) ELSE words[i]])

\* the lookup by the literal key alone
_get_field_value_literal(deal_data, field_name) == Get(deal_data, field_name)

\* the two-step lookup of a field in a deal
_get_field_value(deal_data, field_name) ==
    IF Get(deal_data, field_name).t = "none"
       /\ \E i \in 1..Len(field_name) : field_name[i] = "_"
    THEN Get(deal_data, camel_field(field_name))
    ELSE Get(deal_data, field_name)

\* a leaf: field and operator are absent (None) or empty when falsy
evaluate_leaf(condition, deal_data, clock) ==
    LET field == GetOr(condition, "field", <<>>)
        operator == GetOr(condition, "operator", "")
        threshold == Get(condition, "value")
    IN  IF field = <<>> \/ operator = "" THEN Raise      \* ValueError
        ELSE evaluate_operator(operator, _get_field_value(deal_data, field),
                               threshold, clock)

RECURSIVE evaluate_condition(_, _, _)
evaluate_condition(condition, deal_data, clock) ==
    IF "all" \in DOMAIN condition
    THEN py_all([i \in 1..Len(condition.all) |->
                    evaluate_condition(condition.all[i], deal_data, clock)])
    ELSE IF "any" \in DOMAIN condition
    THEN py_any([i \in 1..Len(condition.any) |->
                    evaluate_condition(condition.any[i], deal_data, clock)])
    ELSE evaluate_leaf(condition, deal_data, clock)

\* the field name read from the top of the condition alone
_extract_field_name_top(condition) ==
    IF "field" \in DOMAIN condition THEN Str(condition.field) ELSE None

\* the primary field name of a condition: a str value or None
RECURSIVE _extract_field_name(_)
_extract_field_name(condition) ==
    IF "field" \in DOMAIN condition THEN Str(condition.field)
    ELSE IF "all" \in DOMAIN condition /\ Len(condition.all) > 0
    THEN _extract_field_name(condition.all[1])
    ELSE IF "any" \in DOMAIN condition /\ Len(condition.any) > 0
    THEN _extract_field_name(condition.any[1])
    ELSE None

\* the expected value of a condition: a str value or None
_extract_expected_value(condition) ==
    IF "value" \in DOMAIN condition
    THEN IF condition.value.t = "list"
         THEN Str(str_join_sep([i \in 1..Len(condition.value.v) |->
                                   py_str(condition.value.v[i]).v],
                               <<",", " ">>))
         ELSE py_str(condition.value)
    ELSE None

ClosedStages == { <<"c","l","o","s","e","d"," ","w","o","n">>,
                  <<"c","l","o","s","e","d"," ","l","o","s","t">>,
                  <<"c","l","o","s","e","d","-","w","o","n">>,
                  <<"c","l","o","s","e","d","-","l","o","s","t">> }
all_except_closed == <<"a","l","l","_","e","x","c","e","p","t","_",
                       "c","l","o","s","e","d">>
stage == <<"s","t","a","g","e">>

InList(x, list) == \E i \in 1..Len(list) : list[i] = x

\* the stage gate without its second test (the membership test)
stage_gate_sentinel_only(rule, deal_data) ==
    IF rule.applicable_stages = <<>> THEN "pass"
    ELSE LET deal_stage == GetOr(deal_data, stage, Str(<<>>))
         IN  IF ~is_str(deal_stage) THEN "raise"
             ELSE IF /\ InList(all_except_closed, rule.applicable_stages)
                     /\ str_lower(deal_stage.v) \in ClosedStages
                  THEN "skip"
             ELSE "pass"

\* the stage gate of evaluate_rule: "pass", "skip", or "raise" when the
\* deal's stage is no str (AttributeError: no lower())
stage_gate(rule, deal_data) ==
    IF rule.applicable_stages = <<>> THEN "pass"
    ELSE LET deal_stage == GetOr(deal_data, stage, Str(<<>>))
             is_closed == /\ deal_stage.t = "str"
                          /\ str_lower(deal_stage.v) \in ClosedStages
             listed == /\ deal_stage.t = "str"
                       /\ InList(deal_stage.v, rule.applicable_stages)
         IN  IF ~is_str(deal_stage) THEN "raise"
             ELSE IF InList(all_except_closed, rule.applicable_stages) /\ is_closed
                  THEN "skip"
             ELSE IF ~listed /\ ~InList(all_except_closed, rule.applicable_stages)
                  THEN "skip"
             ELSE "pass"

Violation(rule, deal_data) ==
    LET field_name == _extract_field_name(rule.condition)
        current_value == IF truthy(field_name)
                         THEN _get_field_value(deal_data, field_name.v)
                         ELSE None
    IN  [rule_id |-> rule.id,
         rule_name |-> rule.name,
         category |-> rule.category,
         severity |-> rule.severity,
         message |-> rule.message,
         field_name |-> field_name,
         current_value |-> IF current_value.t # "none"
                           THEN py_str(current_value) ELSE None,
         expected_value |-> _extract_expected_value(rule.condition),
         remediation_action |-> rule.remediation,
         remediation_owner |-> rule.remediation_owner,
         automatable |-> rule.automatable]

\* what a call returns besides its value: None, or an exception leaving it
NoViolation == [t |-> "none"]
Raised == [t |-> "raise"]

\* the body of evaluate_rule's try block: a Violation, None, or an exception
evaluate_rule_try(rule, deal_data, clock) ==
    Bind(stage_gate(rule, deal_data), LAMBDA gate :
        IF gate = "raise" THEN Raised
        ELSE IF gate = "skip" THEN NoViolation
        ELSE Bind(evaluate_condition(rule.condition, deal_data, clock),
                  LAMBDA is_violated :
                      IF is_violated = Raise THEN Raised
                      ELSE IF is_violated = True THEN Violation(rule, deal_data)
                      ELSE NoViolation))

\* evaluate_rule without its except clause
evaluate_rule_unguarded(rule, deal_data, clock) ==
    evaluate_rule_try(rule, deal_data, clock)

\* evaluate_rule: except Exception returns None
evaluate_rule(rule, deal_data, clock) ==
    Bind(evaluate_rule_try(rule, deal_data, clock), LAMBDA r :
        IF r = Raised THEN NoViolation ELSE r)

\* evaluate_all_rules: [raised, violations], the violations in rule order; an
\* exception leaving evaluate_rule leaves the loop
evaluate_all_rules(rule_list, deal_data, clock) ==
    Bind([i \in 1..Len(rule_list) |-> evaluate_rule(rule_list[i], deal_data, clock)],
         LAMBDA found :
             IF \E i \in 1..Len(found) : found[i] = Raised
             THEN [raised |-> TRUE, violations |-> <<>>]
             ELSE [raised |-> FALSE,
                   violations |-> SelectSeq(found, LAMBDA v : v # NoViolation)])

-----------------------------------------------------------------------------
(* rules_loader.py: RulesLoader                                            *)

\* str(stage).strip() as characters; the text of an ISO date is neither a
\* stage name of a rule nor a closed stage
stage_str(stage_value) ==
    IF stage_value.t = "isostr" THEN <<"#">>
    ELSE str_strip(py_str(stage_value).v)

\* one pass of the loop of get_rules_for_stage, stage_text being stage_str
rule_applies_to_stage(rule, stage_text) ==
    \/ rule.applicable_stages = <<>>
    \/ InList(stage_text, rule.applicable_stages)
    \/ /\ InList(all_except_closed, rule.applicable_stages)
       /\ str_lower(stage_text) \notin ClosedStages

\* RulesLoader.get_rules_for_stage
get_rules_for_stage(rule_list, stage_value) ==
    Bind(stage_str(stage_value), LAMBDA stage_text :
        SelectSeq(rule_list, LAMBDA rule : rule_applies_to_stage(rule, stage_text)))

-----------------------------------------------------------------------------
(* business_rules_engine.py                                                *)

critical == <<"c","r","i","t","i","c","a","l">>
warning == <<"w","a","r","n","i","n","g">>
info == <<"i","n","f","o">>
total == <<"t","o","t","a","l">>
CRITICAL == <<"C","R","I","T","I","C","A","L">>
WARNING == <<"W","A","R","N","I","N","G">>
INFO == <<"I","N","F","O">>

CountSeq(seq, P(_)) == Cardinality({i \in 1..Len(seq) : P(seq[i])})

\* _generate_violation_summary: the counts keyed by lower-cased severity
_generate_violation_summary(violations) ==
    Bind([i \in 1..Len(violations) |-> str_lower(violations[i].severity)],
         LAMBDA severities :
             LET n(key) == CountSeq(severities, LAMBDA severity : severity = key)
             IN  [critical |-> n(critical),
                  warning |-> n(warning),
                  info |-> n(info),
                  total |-> Len(violations) + n(total)])

deal_id == <<"d","e","a","l","_","i","d">>
id == <<"i","d">>
external_id == <<"e","x","t","e","r","n","a","l","_","i","d">>
deal_name == <<"d","e","a","l","_","n","a","m","e">>

\* analyze_deal: [raised, violations, summary]
analyze_deal(rule_list, deal_data, clock) ==
    LET deal_stage == Get(deal_data, stage)
        applicable_rules == IF truthy(deal_stage)
                            THEN get_rules_for_stage(rule_list, deal_stage)
                            ELSE rule_list
    IN  Bind(evaluate_all_rules(applicable_rules, deal_data, clock), LAMBDA found :
            IF found.raised THEN [raised |-> TRUE]
            ELSE [raised |-> FALSE,
                  violations |-> found.violations,
                  summary |-> _generate_violation_summary(found.violations)])

\* the dict analyze_deals appends for a violation v of a deal
tagged(deal, v) ==
    [deal_id |-> py_or(py_or(Get(deal, deal_id), Get(deal, id)),
                       Get(deal, external_id)),
     deal_name |-> Get(deal, deal_name),
     rule_id |-> v.rule_id,
     rule_name |-> v.rule_name,
     category |-> v.category,
     severity |-> v.severity,
     message |-> v.message,
     field_name |-> v.field_name,
     current_value |-> v.current_value,
     expected_value |-> v.expected_value,
     remediation_action |-> v.remediation_action,
     remediation_owner |-> v.remediation_owner,
     automatable |-> v.automatable]

\* the sum of f[1..n] and the concatenation of the lists f[1..n]
RECURSIVE SumTo(_, _)
SumTo(f, n) == IF n = 0 THEN 0 ELSE SumTo(f, n - 1) + f[n]

RECURSIVE ConcatTo(_, _)
ConcatTo(f, n) == IF n = 0 THEN <<>> ELSE ConcatTo(f, n - 1) \o f[n]

\* the loop adding a deal's violations to the count of deals with issues
analyze_loop_counting_violations(deals, per_deal) ==
    IF \E k \in 1..Len(deals) : per_deal[k].raised THEN [raised |-> TRUE]
    ELSE LET has(k) == per_deal[k].violations # <<>>
         IN  [raised |-> FALSE,
              all_violations |->
                  ConcatTo([k \in 1..Len(deals) |->
                      [j \in 1..Len(per_deal[k].violations) |->
                          tagged(deals[k], per_deal[k].violations[j])]], Len(deals)),
              deals_with_violations |->
                  SumTo([k \in 1..Len(deals) |-> Len(per_deal[k].violations)], Len(deals)),
              total_critical |->
                  SumTo([k \in 1..Len(deals) |->
                      IF has(k) THEN per_deal[k].summary.critical ELSE 0], Len(deals)),
              total_warnings |->
                  SumTo([k \in 1..Len(deals) |->
                      IF has(k) THEN per_deal[k].summary.warning ELSE 0], Len(deals)),
              total_info |->
                  SumTo([k \in 1..Len(deals) |->
                      IF has(k) THEN per_deal[k].summary.info ELSE 0], Len(deals))]

\* the loop of analyze_deals, given what analyze_deal returned for each deal:
\* [raised, all_violations, deals_with_violations, total_critical,
\*  total_warnings, total_info]
analyze_loop(deals, per_deal) ==
    IF \E k \in 1..Len(deals) : per_deal[k].raised THEN [raised |-> TRUE]
    ELSE LET has(k) == per_deal[k].violations # <<>>
         IN  [raised |-> FALSE,
              all_violations |->
                  ConcatTo([k \in 1..Len(deals) |->
                      [j \in 1..Len(per_deal[k].violations) |->
                          tagged(deals[k], per_deal[k].violations[j])]], Len(deals)),
              deals_with_violations |->
                  SumTo([k \in 1..Len(deals) |-> IF has(k) THEN 1 ELSE 0], Len(deals)),
              total_critical |->
                  SumTo([k \in 1..Len(deals) |->
                      IF has(k) THEN per_deal[k].summary.critical ELSE 0], Len(deals)),
              total_warnings |->
                  SumTo([k \in 1..Len(deals) |->
                      IF has(k) THEN per_deal[k].summary.warning ELSE 0], Len(deals)),
              total_info |->
                  SumTo([k \in 1..Len(deals) |->
                      IF has(k) THEN per_deal[k].summary.info ELSE 0], Len(deals))]

\* exact arithmetic on fractions [n, d] with d > 0
Frac(n, d) == [n |-> n, d |-> d]
frac_sub(a, b) == Frac(a.n * b.d - b.n * a.d, a.d * b.d)
frac_le(a, b) == a.n * b.d <= b.n * a.d
frac_min(a, b) == IF frac_le(a, b) THEN a ELSE b
frac_max(a, b) == IF frac_le(a, b) THEN b ELSE a

\* round(x, 2) of a fraction x >= 0, in hundredths: to the nearest, a tie to
\* the even hundredth
round2(x) ==
    LET scaled == 100 * x.n
        q == scaled \div x.d
        r == scaled % x.d
    IN  IF 2 * r < x.d THEN q
        ELSE IF 2 * r > x.d THEN q + 1
        ELSE IF q % 2 = 0 THEN q ELSE q + 1

CriticalWeight == 5
WarningWeight == 2
InfoWeightHalves == 1            \* 0.5, in halves
PenaltyPerDeal == 10

\* health_score with the INFO weight taken as a whole point
health_score_info_weight(total_deals, deals_with_violations, total_critical, total_warnings, total_info) ==
    IF total_deals > 0
    THEN LET clean_deals_pct ==
                 Frac((total_deals - deals_with_violations) * 100, total_deals)
             severity_penalty ==
                 Frac(total_critical * CriticalWeight
                        + total_warnings * WarningWeight + total_info, 1)
             max_penalty == total_deals * PenaltyPerDeal
             penalty_pct ==
                 frac_min(Frac(severity_penalty.n * 100,
                               severity_penalty.d * max_penalty), Frac(100, 1))
         IN  frac_max(Frac(0, 1), frac_sub(clean_deals_pct, penalty_pct))
    ELSE Frac(0, 1)

\* health_score without the clamp at 0
health_score_unclamped(total_deals, deals_with_violations, total_critical, total_warnings, total_info) ==
    IF total_deals > 0
    THEN LET clean_deals_pct ==
                 Frac((total_deals - deals_with_violations) * 100, total_deals)
             severity_penalty ==
                 Frac(2 * total_critical * CriticalWeight
                        + 2 * total_warnings * WarningWeight
                        + total_info * InfoWeightHalves, 2)
             max_penalty == total_deals * PenaltyPerDeal
             penalty_pct ==
                 frac_min(Frac(severity_penalty.n * 100,
                               severity_penalty.d * max_penalty), Frac(100, 1))
         IN  frac_sub(clean_deals_pct, penalty_pct)
    ELSE Frac(0, 1)

\* health_score taking an empty pipeline for a perfectly healthy one
health_score_empty_perfect(total_deals, deals_with_violations, total_critical, total_warnings, total_info) ==
    IF total_deals > 0
    THEN LET clean_deals_pct ==
                 Frac((total_deals - deals_with_violations) * 100, total_deals)
             severity_penalty ==
                 Frac(2 * total_critical * CriticalWeight
                        + 2 * total_warnings * WarningWeight
                        + total_info * InfoWeightHalves, 2)
             max_penalty == total_deals * PenaltyPerDeal
             penalty_pct ==
                 frac_min(Frac(severity_penalty.n * 100,
                               severity_penalty.d * max_penalty), Frac(100, 1))
         IN  frac_max(Frac(0, 1), frac_sub(clean_deals_pct, penalty_pct))
    ELSE Frac(100, 1)

\* health_score taking the distance between the two percentages
health_score_distance(total_deals, deals_with_violations, total_critical, total_warnings, total_info) ==
    IF total_deals > 0
    THEN LET clean_deals_pct ==
                 Frac((total_deals - deals_with_violations) * 100, total_deals)
             severity_penalty ==
                 Frac(2 * total_critical * CriticalWeight
                        + 2 * total_warnings * WarningWeight
                        + total_info * InfoWeightHalves, 2)
             max_penalty == total_deals * PenaltyPerDeal
             penalty_pct ==
                 frac_min(Frac(severity_penalty.n * 100,
                               severity_penalty.d * max_penalty), Frac(100, 1))
         IN  frac_max(frac_sub(penalty_pct, clean_deals_pct),
                      frac_sub(clean_deals_pct, penalty_pct))
    ELSE Frac(0, 1)

\* the health score of analyze_deals, unrounded, as a fraction
health_score(total_deals, deals_with_violations, total_critical, total_warnings, total_info) ==
    IF total_deals > 0
    THEN LET clean_deals_pct ==
                 Frac((total_deals - deals_with_violations) * 100, total_deals)
             severity_penalty ==
                 Frac(2 * total_critical * CriticalWeight
                        + 2 * total_warnings * WarningWeight
                        + total_info * InfoWeightHalves, 2)
             max_penalty == total_deals * PenaltyPerDeal
             penalty_pct ==
                 IF max_penalty > 0
                 THEN frac_min(Frac(severity_penalty.n * 100,
                                    severity_penalty.d * max_penalty),
                               Frac(100, 1))
                 ELSE Frac(0, 1)
         IN  frac_max(Frac(0, 1), frac_sub(clean_deals_pct, penalty_pct))
    ELSE Frac(0, 1)

\* violation.get(key, default) of a violation dict
get_of(violation, key, default) ==
    IF key \in DOMAIN violation THEN violation[key] ELSE default

\* _group_violations_by_category: category -> violations, in list order
_group_violations_by_category(violations) ==
    LET category(v) == get_of(v, "category", "UNKNOWN")
    IN  [c \in {category(violations[i]) : i \in 1..Len(violations)} |->
            SelectSeq(violations, LAMBDA v : category(v) = c)]

\* the buckets matched without regard to letter case
_group_violations_by_severity_folding(violations) ==
    LET severity(v) == str_lower(get_of(v, "severity", INFO))
    IN  [CRITICAL |-> SelectSeq(violations, LAMBDA v : severity(v) = critical),
         WARNING |-> SelectSeq(violations, LAMBDA v : severity(v) = warning),
         INFO |-> SelectSeq(violations, LAMBDA v : severity(v) = info)]

\* _group_violations_by_severity: the three fixed buckets
_group_violations_by_severity(violations) ==
    LET severity(v) == get_of(v, "severity", INFO)
    IN  [CRITICAL |-> SelectSeq(violations, LAMBDA v : severity(v) = CRITICAL),
         WARNING |-> SelectSeq(violations, LAMBDA v : severity(v) = WARNING),
         INFO |-> SelectSeq(violations, LAMBDA v : severity(v) = INFO)]

\* _group_by_owner: remediation owner -> violations, in list order
_group_by_owner(violations) ==
    LET owner(v) == get_of(v, "remediation_owner", "Unknown")
    IN  [o \in {owner(violations[i]) : i \in 1..Len(violations)} |->
            SelectSeq(violations, LAMBDA v : owner(v) = o)]

\* get_remediation_plan falling back to the owners for any other group_by
get_remediation_plan_lenient(violations, group_by) ==
    IF group_by = "category"
    THEN [raised |-> FALSE, groups |-> _group_violations_by_category(violations)]
    ELSE [raised |-> FALSE, groups |-> _group_by_owner(violations)]

\* get_remediation_plan: the groups, or ValueError
get_remediation_plan(violations, group_by) ==
    IF group_by = "owner"
    THEN [raised |-> FALSE, groups |-> _group_by_owner(violations)]
    ELSE IF group_by = "category"
    THEN [raised |-> FALSE, groups |-> _group_violations_by_category(violations)]
    ELSE [raised |-> TRUE]

\* the dict analyze_deals returns from what its loop accumulated
analysis_result(total_deals, acc) ==
    IF acc.raised THEN [raised |-> TRUE]
    ELSE [raised |-> FALSE,
          total_deals |-> total_deals,
          deals_with_issues |-> acc.deals_with_violations,
          health_score |-> round2(health_score(total_deals,
                              acc.deals_with_violations, acc.total_critical,
                              acc.total_warnings, acc.total_info)),
          total_critical |-> acc.total_critical,
          total_warnings |-> acc.total_warnings,
          total_info |-> acc.total_info,
          violations |-> acc.all_violations,
          violations_by_category |->
              _group_violations_by_category(acc.all_violations),
          violations_by_severity |->
              _group_violations_by_severity(acc.all_violations)]

\* analyze_deals: the result dict (health_score in hundredths), or an
\* exception leaving the call
analyze_deals(rule_list, deals, clock) ==
    Bind([k \in 1..Len(deals) |-> analyze_deal(rule_list, deals[k], clock)],
         LAMBDA per_deal :
             Bind(analyze_loop(deals, per_deal),
                  LAMBDA acc : analysis_result(Len(deals), acc)))

\* what analyze_deals leaves in the deal records it was given: analyze_deal,
\* evaluate_rule and the tagging read them with .get and build new dicts
records_after_normalising(deals) ==
    [k \in 1..Len(deals) |->
        IF stage \in DOMAIN deals[k] /\ deals[k][stage].t = "str"
        THEN [deals[k] EXCEPT ![stage] = Str(str_lower(deals[k][stage].v))]
        ELSE deals[k]]

records_after_analysis(deals) == deals

\* what analyze_deal leaves in RulesLoader.rules: get_rules_for_stage appends
\* the matching rules to a new list
rules_after_filtering(rule_list, deal_data) ==
    IF truthy(Get(deal_data, stage))
    THEN get_rules_for_stage(rule_list, Get(deal_data, stage))
    ELSE rule_list

rules_after_analysis(rule_list, deal_data) == rule_list

-----------------------------------------------------------------------------
(* rules_loader.py: ContextualRulesLoader                                  *)
(* An id that is None is the empty string; a NULL text column is Null.     *)

Null == "<null>"

\* x or default, of a nullable text column
text_or(x, default) == IF x = Null \/ x = "" THEN default ELSE x

\* db.globalruleoverride.find_many(where={column: value}): the rows, in
\* table order
find_overrides(table, column, value) ==
    SelectSeq(table, LAMBDA row : row[column] = value)

\* the rows of seq ordered by priority descending (rows of equal priority
\* keep their table order): row i goes to the place after the rows that
\* precede it in that order
order_priority_desc(seq) ==
    LET before(i) == {j \in 1..Len(seq) :
                        \/ seq[j].priority > seq[i].priority
                        \/ seq[j].priority = seq[i].priority /\ j < i}
    IN  [p \in 1..Len(seq) |->
            seq[CHOOSE i \in 1..Len(seq) : Cardinality(before(i)) = p - 1]]

\* find_many without the "enabled" filter
find_custom_rules_unfiltered(table, column, value) ==
    order_priority_desc(SelectSeq(table, LAMBDA row : row[column] = value))

\* db.customrule.find_many(where={column: value, "enabled": True},
\*                         order={"priority": "desc"})
find_custom_rules(table, column, value) ==
    order_priority_desc(
        SelectSeq(table, LAMBDA row : row[column] = value /\ row.enabled))

\* self.overrides after the loop over the rows of one scope: each row
\* overwrites the entry of its rule id, so the last row of an id stays
store_overrides(current, rows, source) ==
    LET ids == {rows[i].globalRuleId : i \in 1..Len(rows)}
        last(g) == rows[CHOOSE i \in 1..Len(rows) :
                          /\ rows[i].globalRuleId = g
                          /\ \A j \in (i + 1)..Len(rows) : rows[j].globalRuleId # g]
    IN  [g \in DOMAIN current \cup ids |->
            IF g \in ids
            THEN [enabled |-> last(g).enabled,
                  threshold_overrides |-> last(g).thresholdOverrides,
                  source |-> source]
            ELSE current[g]]

\* the BusinessRule built from a custom-rule row
custom_rule(row, scope) ==
    [id |-> row.ruleId,
     name |-> row.name,
     category |-> row.category,
     severity |-> row.severity,
     description |-> row.description,
     condition |-> row.condition,
     message |-> row.message,
     remediation |-> text_or(row.remediation, ""),
     remediation_owner |-> text_or(row.remediationOwner, "Rep"),
     automatable |-> row.automatable,
     applicable_stages |-> row.applicableStages,
     priority |-> row.priority,
     enabled |-> row.enabled,
     scope |-> scope,
     user_id |-> IF scope = "user" THEN row.userId ELSE "",
     org_id |-> IF scope = "org" THEN row.orgId ELSE ""]

custom_rules_of(rows, scope) ==
    [i \in 1..Len(rows) |-> custom_rule(rows[i], scope)]

NoOverrides == [g \in {} |-> None]

\* the four database reads of load_context, in program order
load_org_overrides(current, database, org_id) ==
    IF org_id # ""
    THEN store_overrides(current, find_overrides(database.overrides, "orgId", org_id), "org")
    ELSE current

load_user_overrides(current, database, user_id) ==
    IF user_id # ""
    THEN store_overrides(current, find_overrides(database.overrides, "userId", user_id), "user")
    ELSE current

load_org_rules(current, database, org_id) ==
    IF org_id # ""
    THEN current \o custom_rules_of(find_custom_rules(database.custom, "orgId", org_id), "org")
    ELSE current

load_user_rules(current, database, user_id) ==
    IF user_id # ""
    THEN current \o custom_rules_of(find_custom_rules(database.custom, "userId", user_id), "user")
    ELSE current

\* load_context with the two override reads in the other order
load_context_org_last(database, user_id, org_id) ==
    IF user_id = "" /\ org_id = ""
    THEN [custom_rules |-> <<>>, overrides |-> NoOverrides]
    ELSE [custom_rules |->
              load_user_rules(load_org_rules(<<>>, database, org_id),
                              database, user_id),
          overrides |->
              load_org_overrides(load_user_overrides(NoOverrides, database, user_id),
                                 database, org_id)]

\* load_context run to completion: [custom_rules, overrides]
load_context(database, user_id, org_id) ==
    IF user_id = "" /\ org_id = ""
    THEN [custom_rules |-> <<>>, overrides |-> NoOverrides]
    ELSE [custom_rules |->
              load_user_rules(load_org_rules(<<>>, database, org_id),
                              database, user_id),
          overrides |->
              load_user_overrides(load_org_overrides(NoOverrides, database, org_id),
                                  database, user_id)]

\* load_context that keeps what the loader holds
load_context_begin_keeping(customs, current) ==
    [custom_rules |-> customs, overrides |-> current]

\* the first two statements of load_context: both collections start empty
load_context_begin(customs, current) ==
    [custom_rules |-> <<>>, overrides |-> NoOverrides]

\* the awaits of load_context, in program order
Awaits == <<"org_overrides", "user_overrides", "org_rules", "user_rules">>

\* the await load_context reaches after its k-th (0: after the two resets):
\* the reads of a scope are skipped when its id is None, and with neither id
\* the call returns at once
next_await(k, user_id, org_id) ==
    LET later == {j \in (k + 1)..Len(Awaits) :
                    IF j \in {1, 3} THEN org_id # "" ELSE user_id # ""}
    IN  IF later = {} THEN "returned"
        ELSE Awaits[CHOOSE j \in later : \A i \in later : j <= i]

\* the loader after load_context resumes from one await: the rows read are
\* stored in the collection the loader holds at that moment
resume_load(at, customs, current, database, user_id, org_id) ==
    [custom_rules |->
        IF at = "org_rules" THEN load_org_rules(customs, database, org_id)
        ELSE IF at = "user_rules" THEN load_user_rules(customs, database, user_id)
        ELSE customs,
     overrides |->
        IF at = "org_overrides" THEN load_org_overrides(current, database, org_id)
        ELSE IF at = "user_overrides" THEN load_user_overrides(current, database, user_id)
        ELSE current]

\* _apply_overrides_to_condition without the descent into "all" and "any"
_apply_overrides_to_condition_flat(condition, threshold_overrides) ==
    [key \in DOMAIN condition |->
        IF key = "value" /\ "value" \in DOMAIN threshold_overrides
        THEN threshold_overrides.value
        ELSE condition[key]]

\* _apply_overrides_to_condition: the condition object after the call (it
\* is changed in place and returned): an existing "value" is overwritten,
\* the lists under "all" and "any" are rebuilt from their treated members
RECURSIVE _apply_overrides_to_condition(_, _)
_apply_overrides_to_condition(condition, threshold_overrides) ==
    [key \in DOMAIN condition |->
        IF key = "value" /\ "value" \in DOMAIN threshold_overrides
        THEN threshold_overrides.value
        ELSE IF key \in {"all", "any"}
        THEN [i \in 1..Len(condition[key]) |->
                 _apply_overrides_to_condition(condition[key][i], threshold_overrides)]
        ELSE condition[key]]

\* a reference to a condition dict: the object it points to, and that
\* object's contents
OwnCondition(rule) == [object |-> "rule.condition", value |-> rule.condition]

\* copy.deepcopy: a new object with equal contents; deepcopy_alias is the
\* call without the copy, which passes the object itself
deepcopy_alias(ref) == ref

deepcopy(ref) == [object |-> "copy", value |-> ref.value]

\* _apply_threshold_overrides: [rule, source]: the new rule, and the rule
\* passed in as the call leaves it (_apply_overrides_to_condition writes
\* into the object it is given)
_apply_threshold_overrides(rule, threshold_overrides) ==
    LET target == deepcopy(OwnCondition(rule))
        modified_condition ==
            _apply_overrides_to_condition(target.value, threshold_overrides)
        modified_rule == [rule EXCEPT !.condition = modified_condition]
    IN  [rule |-> modified_rule,
         source |-> IF target.object = "rule.condition" THEN modified_rule ELSE rule]

\* a dict that is neither None nor empty
truthy_dict(d) == d # None /\ DOMAIN d # {}

\* one pass of the loop of get_effective_rules over a global rule:
\* [keep, rule, source]
effective_global(rule, current_overrides) ==
    IF rule.id \in DOMAIN current_overrides
    THEN LET override == current_overrides[rule.id]
         IN  IF ~override.enabled
             THEN [keep |-> FALSE, rule |-> rule, source |-> rule]
             ELSE IF truthy_dict(override.threshold_overrides)
             THEN LET applied == _apply_threshold_overrides(
                                     rule, override.threshold_overrides)
                  IN  [keep |-> TRUE, rule |-> applied.rule, source |-> applied.source]
             ELSE [keep |-> TRUE, rule |-> rule, source |-> rule]
    ELSE [keep |-> TRUE, rule |-> rule, source |-> rule]

\* get_effective_rules: [effective, global_rules]: the list returned, and
\* self.global_rules as the call leaves it
get_effective_rules(globals, current_overrides, customs) ==
    LET pass == [i \in 1..Len(globals) |-> effective_global(globals[i], current_overrides)]
        kept == SelectSeq(pass, LAMBDA p : p.keep)
    IN  [effective |-> [i \in 1..Len(kept) |-> kept[i].rule] \o customs,
         global_rules |-> [i \in 1..Len(globals) |-> pass[i].source]]

-----------------------------------------------------------------------------
(* The inputs of the model: a static rule configuration, deal records and   *)
(* database rows.                                                          *)

f_name == <<"n","a","m","e">>
f_amount == <<"a","m","o","u","n","t">>
f_close_date == <<"c","l","o","s","e","_","d","a","t","e">>
f_closeDate == <<"c","l","o","s","e","D","a","t","e">>
f_next_steps == <<"n","e","x","t","_","s","t","e","p","s">>
f_forecast_category == <<"f","o","r","e","c","a","s","t","_","c","a","t","e","g","o","r","y">>

Discovery == <<"D","i","s","c","o","v","e","r","y">>
Proposal == <<"P","r","o","p","o","s","a","l">>
ClosedWon == <<"C","l","o","s","e","d"," ","W","o","n">>
closed_lost_upper == <<"C","L","O","S","E","D","-","L","O","S","T">>

\* a rule of the YAML configuration (RulesLoader._load_rules)
BusinessRule(rule_id, category, severity, condition, owner, stages) ==
    [id |-> rule_id,
     name |-> rule_id,
     category |-> category,
     severity |-> severity,
     description |-> "",
     condition |-> condition,
     message |-> rule_id,
     remediation |-> "fix",
     remediation_owner |-> owner,
     automatable |-> FALSE,
     applicable_stages |-> stages,
     priority |-> 0,
     enabled |-> TRUE,
     scope |-> "global",
     user_id |-> "",
     org_id |-> ""]

leaf_name_empty == [field |-> f_name, operator |-> "is_empty"]
leaf_amount_zero == [field |-> f_amount, operator |-> "is_null_or_zero"]
leaf_close_past == [field |-> f_close_date, operator |-> "is_past"]
leaf_amount_big == [field |-> f_amount, operator |-> "greater_than", value |-> Num(10)]
leaf_steps_empty == [field |-> f_next_steps, operator |-> "is_empty"]
leaf_close_soon == [field |-> f_close_date, operator |-> "within_days", value |-> Num(1)]
leaf_category_in == [field |-> f_forecast_category, operator |-> "in",
                     value |-> List(<<Str(<<"C","o","m","m","i","t">>), Str(<<"B","e","s","t"," ","C","a","s","e">>)>>)]
leaf_unknown_op == [field |-> f_amount, operator |-> "bigger_than", value |-> Num(10)]
leaf_no_operator == [field |-> f_amount]

StaticRules ==
    << BusinessRule("DQ-001", "DATA_QUALITY", CRITICAL, leaf_name_empty, "Rep", <<>>),
       BusinessRule("DQ-002", "DATA_QUALITY", CRITICAL, leaf_amount_zero, "Rep",
                    <<all_except_closed>>),
       BusinessRule("SH-001", "SALES_HYGIENE", CRITICAL, leaf_close_past, "Rep",
                    <<all_except_closed>>),
       BusinessRule("SH-002", "SALES_HYGIENE", WARNING,
                    [all |-> <<leaf_amount_big,
                               [any |-> <<leaf_steps_empty, leaf_category_in>>]>>],
                    "Manager", <<Discovery, Proposal>>),
       BusinessRule("FC-001", "FORECASTING", INFO, leaf_close_soon, "Rep",
                    <<all_except_closed>>),
       BusinessRule("FC-002", "FORECASTING", WARNING, leaf_unknown_op, "Auto", <<>>),
       BusinessRule("EN-001", "ENGAGEMENT", <<"C","r","i","t","i","c","a","l">>,
                    [any |-> <<leaf_category_in, leaf_no_operator>>], "Rep", <<>>),
       BusinessRule("CO-001", "COMPLIANCE", <<"L","O","W">>,
                    [field |-> f_amount, operator |-> "equals", value |-> Num(7)],
                    "Manager", <<>>) >>

\* ISO-8601 date strings, relative to the evaluation day
yesterday == IsoStr(0 - TicksPerDay, FALSE)
tomorrow == IsoStr(TicksPerDay, FALSE)
next_week == IsoStr(7 * TicksPerDay, FALSE)
tomorrow_utc == IsoStr(TicksPerDay, TRUE)
\* the evaluation day itself: a date without a time, and its last tick
today == IsoStr(0, FALSE)
today_late == IsoStr(TicksPerDay - 1, FALSE)

\* a dict literal from a sequence of <<key, value>> pairs
Dict(pairs) ==
    [k \in {pairs[i][1] : i \in 1..Len(pairs)} |->
        pairs[CHOOSE i \in 1..Len(pairs) : pairs[i][1] = k][2]]

deal_three_critical ==
    Dict(<< <<id, Str(<<"1">>)>>, <<f_name, Str(<<>>)>>, <<f_amount, Num(0)>>,
            <<stage, Str(Discovery)>>, <<f_close_date, yesterday>> >>)
deal_clean ==
    Dict(<< <<id, Str(<<"2">>)>>, <<deal_name, Str(<<"A","c","m","e">>)>>, <<f_name, Str(<<"A","c","m","e">>)>>,
            <<f_amount, Num(50)>>, <<stage, Str(Discovery)>>,
            <<f_close_date, next_week>>, <<f_next_steps, Str(<<"c","a","l","l">>)>>,
            <<f_forecast_category, Str(<<"P","i","p","e","l","i","n","e">>)>> >>)
deal_one_warning ==
    Dict(<< <<deal_id, Str(<<"3">>)>>, <<id, Str(<<"x","3">>)>>, <<f_name, Str(<<"B","e","t","a">>)>>,
            <<f_amount, Str(<<"5","0">>)>>, <<stage, Str(Proposal)>>,
            <<f_closeDate, next_week>>, <<f_next_steps, Str(<<" "," ">>)>>,
            <<f_forecast_category, Str(<<"P","i","p","e","l","i","n","e">>)>> >>)
deal_closed_one_critical ==
    Dict(<< <<external_id, Str(<<"4">>)>>, <<f_name, Str(<<>>)>>, <<f_amount, Num(0)>>,
            <<stage, Str(ClosedWon)>>, <<f_close_date, yesterday>> >>)
deal_one_info ==
    Dict(<< <<id, Num(6)>>, <<f_name, Str(<<"D","e","l","t","a">>)>>, <<f_amount, Num(50)>>,
            <<stage, Str(Discovery)>>, <<f_close_date, tomorrow>>,
            <<f_next_steps, Str(<<"d","e","m","o">>)>> >>)
deal_malformed ==
    Dict(<< <<id, Num(0)>>, <<f_name, Str(<<"G","a","m","m","a">>)>>, <<f_amount, Num(7)>>,
            <<stage, Num(3)>>, <<f_close_date, tomorrow_utc>>,
            <<f_forecast_category, Str(<<" ","c","o","m","m","i","t"," ">>)>> >>)

DealUniverse == {deal_three_critical, deal_clean, deal_one_warning,
                 deal_closed_one_critical, deal_one_info, deal_malformed}

\* rows of the globalruleoverride table, as set_global_rule_override writes
\* them: one row per owner and rule id
OverrideRow(rule_id, user_id, org_id, enabled, threshold_overrides) ==
    [globalRuleId |-> rule_id, userId |-> user_id, orgId |-> org_id,
     enabled |-> enabled, thresholdOverrides |-> threshold_overrides]

NewThreshold == [value |-> Num(99)]

\* what an owner may have stored for a rule: nothing, or one row
OverrideChoices(rule_id, user_id, org_id) ==
    { <<>>,
      <<OverrideRow(rule_id, user_id, org_id, FALSE, None)>>,
      <<OverrideRow(rule_id, user_id, org_id, TRUE, None)>>,
      <<OverrideRow(rule_id, user_id, org_id, TRUE, NewThreshold)>> }

OverrideTables ==
    { a \o b \o c \o d :
        a \in OverrideChoices("SH-002", Null, "o1"),
        b \in OverrideChoices("SH-002", "u1", Null),
        c \in {<<>>, <<OverrideRow("FC-001", Null, "o1", TRUE, NewThreshold)>>,
               <<OverrideRow("FC-001", Null, "o1", FALSE, NewThreshold)>>},
        d \in {<<>>, <<OverrideRow("SH-002", "u2", Null, FALSE, None)>>} }

\* rows of the customrule table, as create_custom_rule writes them
CustomRow(rule_id, user_id, org_id, priority, enabled) ==
    [ruleId |-> rule_id, name |-> rule_id, category |-> "CUSTOM",
     severity |-> WARNING, description |-> "", condition |-> leaf_amount_big,
     message |-> rule_id, remediation |-> Null, remediationOwner |-> Null,
     automatable |-> FALSE, applicableStages |-> <<>>, priority |-> priority,
     enabled |-> enabled, userId |-> user_id, orgId |-> org_id]

LowPriority == 1
HighPriority == 2

CustomRows ==
    { CustomRow("ORG-LOW", Null, "o1", LowPriority, TRUE),
      CustomRow("ORG-HIGH", Null, "o1", HighPriority, TRUE),
      CustomRow("USER-1", "u1", Null, LowPriority, TRUE),
      CustomRow("USER-OFF", "u1", Null, HighPriority, FALSE),
      CustomRow("OTHER-1", "u2", Null, HighPriority, TRUE) }

\* the customrule tables of at most n rows, in creation order
RECURSIVE CustomTables(_)
CustomTables(n) ==
    IF n = 0 THEN {<<>>}
    ELSE CustomTables(n - 1) \cup
         { Append(t, r) : t \in {u \in CustomTables(n - 1) : Len(u) = n - 1},
                          r \in CustomRows }

NoRepeat(t) == \A i, j \in 1..Len(t) : i # j => t[i] # t[j]

DbUniverse ==
    { [overrides |-> o, custom |-> c] :
        o \in OverrideTables,
        c \in {t \in CustomTables(MaxCustomRows) : NoRepeat(t)} }

\* the ids a caller passes to load_context ("" for None)
UserIds == {"", "u1"}
OrgIds == {"", "o1"}

\* the callers that share one loader, and the ids they pass
Callers == {"a", "b"}
LoadUserIds == {"", "u1", "u2"}

\* two databases for the shared loader: rows of every owner, and rows of one
\* user and one org
db_every_owner ==
    [overrides |-> << OverrideRow("SH-002", Null, "o1", TRUE, NewThreshold),
                      OverrideRow("SH-002", "u1", Null, FALSE, None),
                      OverrideRow("FC-001", Null, "o1", FALSE, NewThreshold),
                      OverrideRow("SH-002", "u2", Null, FALSE, None) >>,
     custom |-> << CustomRow("ORG-LOW", Null, "o1", LowPriority, TRUE),
                   CustomRow("USER-1", "u1", Null, LowPriority, TRUE),
                   CustomRow("OTHER-1", "u2", Null, HighPriority, TRUE) >>]
db_one_user ==
    [overrides |-> << OverrideRow("SH-002", "u1", Null, TRUE, NewThreshold) >>,
     custom |-> << CustomRow("ORG-LOW", Null, "o1", LowPriority, TRUE),
                   CustomRow("ORG-HIGH", Null, "o1", HighPriority, TRUE),
                   CustomRow("USER-OFF", "u1", Null, HighPriority, FALSE) >>]
SharedDbs == {db_every_owner, db_one_user}

\* inputs of single evaluate_rule calls: the static rules under several
\* applicable_stages lists, and the deals under several stage values
StageLists ==
    { <<>>, <<all_except_closed>>, <<Discovery, Proposal>>,
      <<all_except_closed, ClosedWon>>, <<ClosedWon>> }

StageValues ==
    { Discovery, Proposal, ClosedWon, closed_lost_upper,
      <<"d","i","s","c","o","v","e","r","y">>,
      <<"C","l","o","s","e","d"," ","W","o","n"," ">>,
      <<>> }

\* compound rules whose first child is not the one that decides, and
\* compounds with an empty list
CompoundRules ==
    { BusinessRule("CP-001", "DATA_QUALITY", WARNING,
                   [any |-> <<leaf_amount_big, leaf_name_empty>>], "Rep", <<>>),
      BusinessRule("CP-002", "DATA_QUALITY", WARNING, [all |-> <<>>], "Rep", <<>>),
      BusinessRule("CP-003", "DATA_QUALITY", WARNING,
                   [any |-> << [all |-> <<>>], leaf_name_empty >>], "Rep", <<>>),
      BusinessRule("CP-004", "SALES_HYGIENE", INFO,
                   [all |-> << [any |-> <<leaf_close_past, leaf_name_empty>>],
                               leaf_amount_zero >>], "Rep", <<>>) }

RuleUniverse ==
    { [StaticRules[i] EXCEPT !.applicable_stages = list] :
        i \in 1..Len(StaticRules), list \in StageLists }
    \cup CompoundRules

WithStage(deal, value) ==
    [k \in DOMAIN deal \cup {stage} |-> IF k = stage THEN Str(value) ELSE deal[k]]

WithoutStage(deal) == [k \in DOMAIN deal \ {stage} |-> deal[k]]

\* deals keyed the way the CRM exports them: camelCase only, both spellings,
\* and the snake_case key present with a null
deal_camel_only ==
    Dict(<< <<id, Str(<<"7">>)>>, <<f_name, Str(<<"E","t","a">>)>>, <<f_amount, Num(50)>>,
            <<f_closeDate, yesterday>> >>)
deal_both_keys ==
    Dict(<< <<id, Str(<<"8">>)>>, <<f_name, Str(<<"E","t","a">>)>>, <<f_amount, Num(50)>>,
            <<f_close_date, next_week>>, <<f_closeDate, yesterday>> >>)
deal_null_literal ==
    Dict(<< <<id, Str(<<"9">>)>>, <<f_amount, Num(50)>>,
            <<f_close_date, None>>, <<f_closeDate, yesterday>> >>)

\* a record whose stage cell is empty: the key is there, the value is None
deal_null_stage ==
    [deal_three_critical EXCEPT ![stage] = None]

EvalDeals ==
    DealUniverse
    \cup { WithStage(d, v) : d \in DealUniverse, v \in StageValues }
    \cup { WithoutStage(d) : d \in DealUniverse }
    \cup { deal_camel_only, deal_both_keys, deal_null_literal, deal_null_stage }

\* a leaf that compares a field with null
leaf_steps_null == [field |-> f_next_steps, operator |-> "equals", value |-> None]

\* inputs of single evaluate_condition calls
CondLeaves == {leaf_name_empty, leaf_amount_big, leaf_close_soon, leaf_no_operator}
CondDeals == {deal_three_critical, deal_one_info, deal_malformed}

\* the nesting depth of a condition: 0 for a leaf
RECURSIVE Depth(_)
Depth(condition) ==
    LET children == IF "all" \in DOMAIN condition THEN condition.all
                    ELSE IF "any" \in DOMAIN condition THEN condition.any
                    ELSE <<>>
        depths == {Depth(children[i]) : i \in 1..Len(children)}
    IN  IF DOMAIN condition \cap {"all", "any"} = {} THEN 0
        ELSE 1 + (IF depths = {} THEN 0
                  ELSE CHOOSE d \in depths : \A e \in depths : e <= d)

\* the child lists a caller builds around condition c
ChildLists(c) ==
    {<<>>, <<c>>} \cup {<<c, l>> : l \in CondLeaves} \cup {<<l, c>> : l \in CondLeaves}

\* inputs of single evaluate_operator calls: registered and unregistered
\* names, field values of every kind, thresholds present and absent
OperatorNames == OPERATORS \cup {"bigger_than", "IS_EMPTY", ""}

OpValues ==
    { None, Str(<<>>), Str(<<"a","b","c">>), Str(<<"5","0">>), Num(0), Num(50),
      yesterday, today, today_late, tomorrow, tomorrow_utc, List(<<Num(50)>>) }

OpThresholds ==
    { None, Num(0), Num(1), Num(10), Str(<<"A","B","C">>),
      List(<<Str(<<"A","B","C">>), Num(50)>>) }

\* leaves without a usable field or operator, and a sound one
BrokenLeaves ==
    { [field |-> f_amount],
      [operator |-> "is_empty"],
      [value |-> Num(1)],
      [field |-> <<>>, operator |-> "is_empty"],
      [field |-> f_amount, operator |-> "", value |-> Num(1)] }

\* violation dicts a caller passes to get_remediation_plan: with both keys,
\* without remediation_owner, and without category
PlanViolations ==
    { [id |-> "1", remediation_owner |-> "Rep", category |-> "DATA_QUALITY"],
      [id |-> "2", remediation_owner |-> "Manager", category |-> "SALES_HYGIENE"],
      [id |-> "3", remediation_owner |-> "Rep", category |-> "SALES_HYGIENE"],
      [id |-> "4", category |-> "DATA_QUALITY"],
      [id |-> "5", remediation_owner |-> "Unknown"] }

GroupBys == {"owner", "category", "severity", "Owner", ""}

\* the concurrent callers and the deal lists they pass
TaskIds == {"first", "second"}

RECURSIVE ListsUpTo(_, _)
ListsUpTo(elements, n) ==
    IF n = 0 THEN {<<>>}
    ELSE ListsUpTo(elements, n - 1)
         \cup {Append(l, e) : l \in ListsUpTo(elements, n - 1), e \in elements}

TaskBatches == ListsUpTo({deal_closed_one_critical, deal_one_warning}, MaxBatch)

\* rule lists a configuration may hold: all rules, and parts of them
RuleLists ==
    { StaticRules, SubSeq(StaticRules, 1, 4), SubSeq(StaticRules, 3, 8) }

-----------------------------------------------------------------------------
(* The state machines.  Every action is one call of an operation of the     *)
(* engine; the caller's inputs are drawn from the sets above.              *)

NotCalled == [t |-> "none"]
NoDb == [overrides |-> <<>>, custom |-> <<>>]

CallsIdle ==
    /\ eval_op = NotCalled /\ score_call = NotCalled
    /\ analysis_again = NotCalled /\ plan_call = NotCalled
    /\ tasks = NotCalled /\ loading = NotCalled

EngineIdle ==
    /\ eval_rule = NotCalled /\ eval_deal = NotCalled /\ eval_cond = NotCalled
    /\ eval_out = NotCalled
    /\ CallsIdle
LoaderIdle ==
    /\ db = NoDb /\ global_rules = <<>> /\ custom_rules = <<>>
    /\ overrides = NoOverrides /\ ctx = NotCalled /\ effective = NotCalled

\* BusinessRulesEngine.__init__, before the first analyze_deals
InitEngine ==
    /\ now \in 0..(TicksPerDay - 1)
    /\ rules = StaticRules
    /\ deals_data = <<>>
    /\ analysis = NotCalled
    /\ EngineIdle /\ LoaderIdle

\* the deal lists a caller passes next: the empty list, or the last list
\* with one more deal
NextDealLists ==
    {<<>>} \cup {Append(deals_data, d) : d \in
                    IF Len(deals_data) < MaxDeals THEN DealUniverse ELSE {}}

\* BusinessRulesEngine.analyze_deals(deals)
AnalyzeDeals ==
    \E deals \in NextDealLists :
        /\ deals_data' = deals
        /\ analysis' = analyze_deals(rules, deals, now)
        /\ UNCHANGED <<now, rules, eval_rule, eval_deal, eval_cond, eval_out, db,
                       global_rules, custom_rules, overrides, ctx, effective,
                   call_vars>>

NextEngine == AnalyzeDeals

SpecEngine == InitEngine /\ [][NextEngine]_vars

\* ContextualRulesLoader.__init__, over a database
InitLoader ==
    /\ db \in DbUniverse
    /\ global_rules = StaticRules
    /\ custom_rules = <<>>
    /\ overrides = NoOverrides
    /\ ctx = NotCalled
    /\ effective = NotCalled
    /\ now = 0 /\ rules = <<>> /\ deals_data = <<>> /\ analysis = NotCalled
    /\ EngineIdle

\* await loader.load_context(db, user_id, org_id); the list an earlier
\* get_effective_rules returned is dropped
LoadContext ==
    \E user_id \in UserIds, org_id \in OrgIds :
        /\ ctx' = [user_id |-> user_id, org_id |-> org_id]
        /\ \E loaded \in {load_context(db, user_id, org_id)} :
              /\ custom_rules' = loaded.custom_rules
              /\ overrides' = loaded.overrides
        /\ effective' = NotCalled
        /\ UNCHANGED <<now, rules, deals_data, analysis, eval_rule, eval_deal,
                       eval_cond, eval_out, db, global_rules,
                   call_vars>>

\* loader.get_effective_rules()
GetEffectiveRules ==
    /\ \E got \in {get_effective_rules(global_rules, overrides, custom_rules)} :
          /\ effective' = got.effective
          /\ global_rules' = got.global_rules
    /\ UNCHANGED <<now, rules, deals_data, analysis, eval_rule, eval_deal,
                   eval_cond, eval_out, db, custom_rules, overrides, ctx,
                   call_vars>>

NextLoader == LoadContext \/ GetEffectiveRules

SpecLoader == InitLoader /\ [][NextLoader]_vars

\* one ContextualRulesLoader that several callers use, before any call
NotLoading == [user_id |-> "", org_id |-> "", at |-> "idle",
               overlapped |-> FALSE, latest |-> FALSE]

InitShared ==
    /\ db \in SharedDbs
    /\ global_rules = StaticRules
    /\ custom_rules = <<>>
    /\ overrides = NoOverrides
    /\ ctx = NotCalled
    /\ effective = NotCalled
    /\ now = 0 /\ rules = <<>> /\ deals_data = <<>> /\ analysis = NotCalled
    /\ eval_rule = NotCalled /\ eval_deal = NotCalled /\ eval_cond = NotCalled
    /\ eval_out = NotCalled
    /\ eval_op = NotCalled /\ score_call = NotCalled
    /\ analysis_again = NotCalled /\ plan_call = NotCalled
    /\ tasks = NotCalled
    /\ loading = [c \in Callers |-> NotLoading]

\* caller c calls loader.load_context(db, user_id, org_id): the call runs to
\* its first await; the callers whose call is at an await overlap with it
BeginLoad(c) ==
    /\ loading[c].at \in {"idle", "returned"}
    /\ \E user_id \in LoadUserIds, org_id \in OrgIds :
          LET begun == load_context_begin(custom_rules, overrides)
              running == {d \in Callers \ {c} :
                            loading[d].at \notin {"idle", "returned"}}
          IN  /\ custom_rules' = begun.custom_rules
              /\ overrides' = begun.overrides
              /\ ctx' = [user_id |-> user_id, org_id |-> org_id]
              /\ loading' =
                    [d \in Callers |->
                        IF d = c
                        THEN [user_id |-> user_id, org_id |-> org_id,
                              at |-> next_await(0, user_id, org_id),
                              overlapped |-> running # {}, latest |-> TRUE]
                        ELSE [loading[d] EXCEPT
                                !.latest = FALSE,
                                !.overlapped = @ \/ d \in running]]
    /\ UNCHANGED <<now, rules, deals_data, analysis, eval_rule, eval_deal,
                   eval_cond, eval_out, db, global_rules, effective,
                   eval_op, score_call, analysis_again, plan_call, tasks>>

\* the call of caller c resumes from its await, stores the rows and runs to
\* its next await or to its end
ResumeLoad(c) ==
    /\ loading[c].at \notin {"idle", "returned"}
    /\ LET call == loading[c]
           k == CHOOSE j \in 1..Len(Awaits) : Awaits[j] = call.at
           stored == resume_load(call.at, custom_rules, overrides, db,
                                 call.user_id, call.org_id)
       IN  /\ custom_rules' = stored.custom_rules
           /\ overrides' = stored.overrides
           /\ loading' = [loading EXCEPT
                             ![c].at = next_await(k, call.user_id, call.org_id)]
    /\ UNCHANGED <<now, rules, deals_data, analysis, eval_rule, eval_deal,
                   eval_cond, eval_out, db, global_rules, ctx, effective,
                   eval_op, score_call, analysis_again, plan_call, tasks>>

NextShared == \E c \in Callers : BeginLoad(c) \/ ResumeLoad(c)

SpecShared == InitShared /\ [][NextShared]_vars

\* a RuleEvaluator, before the first evaluate_rule
InitRule ==
    /\ now \in 0..(TicksPerDay - 1)
    /\ eval_rule = NotCalled /\ eval_deal = NotCalled /\ eval_out = NotCalled
    /\ eval_cond = NotCalled
    /\ rules = <<>> /\ deals_data = <<>> /\ analysis = NotCalled
    /\ LoaderIdle /\ CallsIdle

\* RuleEvaluator.evaluate_rule(rule, deal_data); after the first call the
\* caller changes the rule or the deal, one at a time
EvaluateRule ==
    \E rule \in RuleUniverse, deal_data \in EvalDeals :
        /\ eval_rule = NotCalled \/ rule = eval_rule \/ deal_data = eval_deal
        /\ eval_rule' = rule
        /\ eval_deal' = deal_data
        /\ eval_out' = evaluate_rule(rule, deal_data, now)
        /\ UNCHANGED <<now, rules, deals_data, analysis, eval_cond, db,
                       global_rules, custom_rules, overrides, ctx, effective,
                   call_vars>>

NextRule == EvaluateRule

SpecRule == InitRule /\ [][NextRule]_vars

\* a RuleEvaluator, before the first evaluate_condition
InitCond ==
    /\ now \in 0..(TicksPerDay - 1)
    /\ eval_cond = NotCalled /\ eval_deal = NotCalled /\ eval_out = NotCalled
    /\ eval_rule = NotCalled
    /\ rules = <<>> /\ deals_data = <<>> /\ analysis = NotCalled
    /\ LoaderIdle /\ CallsIdle

\* evaluate_condition(leaf, deal_data)
EvaluateLeaf ==
    \E leaf \in CondLeaves, deal_data \in CondDeals :
        /\ eval_cond' = leaf
        /\ eval_deal' = deal_data
        /\ eval_out' = evaluate_condition(leaf, deal_data, now)
        /\ UNCHANGED <<now, rules, deals_data, analysis, eval_rule, db,
                       global_rules, custom_rules, overrides, ctx, effective,
                   call_vars>>

\* evaluate_condition({"all": [...]}, deal_data), the last condition among
\* the children
EvaluateAll ==
    /\ eval_cond # NotCalled
    /\ Depth(eval_cond) < MaxDepth
    /\ \E cs \in ChildLists(eval_cond) :
          /\ eval_cond' = [all |-> cs]
          /\ eval_out' = evaluate_condition([all |-> cs], eval_deal, now)
    /\ UNCHANGED <<now, rules, deals_data, analysis, eval_rule, eval_deal, db,
                   global_rules, custom_rules, overrides, ctx, effective,
                   call_vars>>

\* evaluate_condition({"any": [...]}, deal_data)
EvaluateAny ==
    /\ eval_cond # NotCalled
    /\ Depth(eval_cond) < MaxDepth
    /\ \E cs \in ChildLists(eval_cond) :
          /\ eval_cond' = [any |-> cs]
          /\ eval_out' = evaluate_condition([any |-> cs], eval_deal, now)
    /\ UNCHANGED <<now, rules, deals_data, analysis, eval_rule, eval_deal, db,
                   global_rules, custom_rules, overrides, ctx, effective,
                   call_vars>>

NextCond == EvaluateLeaf \/ EvaluateAll \/ EvaluateAny

SpecCond == InitCond /\ [][NextCond]_vars

\* the operator registry and a RuleEvaluator, before the first call
InitOp ==
    /\ now \in 0..(TicksPerDay - 1)
    /\ eval_rule = NotCalled /\ eval_deal = NotCalled /\ eval_cond = NotCalled
    /\ eval_out = NotCalled
    /\ rules = <<>> /\ deals_data = <<>> /\ analysis = NotCalled
    /\ LoaderIdle /\ CallsIdle

\* evaluate_operator(operator, value, threshold); after the first call the
\* caller changes one argument at a time
EvaluateOperator ==
    \E operator \in OperatorNames, value \in OpValues, threshold \in OpThresholds :
        /\ \/ eval_op = NotCalled
           \/ /\ eval_op # NotCalled
              /\ \/ operator = eval_op.operator /\ value = eval_op.value
                 \/ operator = eval_op.operator /\ threshold = eval_op.threshold
                 \/ value = eval_op.value /\ threshold = eval_op.threshold
        /\ eval_op' = [operator |-> operator, value |-> value,
                       threshold |-> threshold,
                       result |-> evaluate_operator(operator, value, threshold, now)]
        /\ UNCHANGED <<now, rules, deals_data, analysis, eval_rule, eval_deal,
                       eval_cond, eval_out, db, global_rules, custom_rules,
                       overrides, ctx, effective, score_call, analysis_again, plan_call, tasks, loading>>

\* evaluate_condition(leaf, deal_data) on a leaf of the configuration
EvaluateConfiguredLeaf ==
    \E leaf \in BrokenLeaves \cup {leaf_name_empty, leaf_steps_null}, deal_data \in CondDeals :
        /\ eval_cond' = leaf
        /\ eval_deal' = deal_data
        /\ eval_out' = evaluate_condition(leaf, deal_data, now)
        /\ UNCHANGED <<now, rules, deals_data, analysis, eval_rule, db,
                       global_rules, custom_rules, overrides, ctx, effective,
                       call_vars>>

NextOp == EvaluateOperator \/ EvaluateConfiguredLeaf

SpecOp == InitOp /\ [][NextOp]_vars

\* the tallies analyze_deals can hold after its loop: a deal with issues for
\* every severity counted
Tally(total_deals, deals_with_violations, total_critical, total_warnings, total_info) ==
    [total_deals |-> total_deals, deals_with_issues |-> deals_with_violations,
     total_critical |-> total_critical, total_warnings |-> total_warnings,
     total_info |-> total_info]

IsTally(t) ==
    /\ t.deals_with_issues <= t.total_deals
    /\ t.deals_with_issues = 0 =>
          t.total_critical + t.total_warnings + t.total_info = 0

\* the score analyze_deals returns for a tally, in hundredths
ScoreOf(t) ==
    round2(health_score(t.total_deals, t.deals_with_issues, t.total_critical,
                        t.total_warnings, t.total_info))

InitScore ==
    /\ now \in 0..(TicksPerDay - 1)
    /\ eval_rule = NotCalled /\ eval_deal = NotCalled /\ eval_cond = NotCalled
    /\ eval_out = NotCalled
    /\ rules = <<>> /\ deals_data = <<>> /\ analysis = NotCalled
    /\ LoaderIdle /\ CallsIdle

\* the health score computation of analyze_deals on the tallies of a batch;
\* the next batch differs in one tally by one
ComputeHealthScore ==
    \E T \in 1..MaxDeals, D \in 0..MaxDeals, c \in 0..MaxTally,
       w \in 0..MaxTally, i \in 0..MaxTally :
        LET t == Tally(T, D, c, w, i)
            dist(a, b) == IF a < b THEN b - a ELSE a - b
        IN  /\ IsTally(t)
            /\ \/ score_call = NotCalled /\ D = 0
               \/ /\ score_call # NotCalled
                  /\ dist(T, score_call.total_deals)
                       + dist(D, score_call.deals_with_issues)
                       + dist(c, score_call.total_critical)
                       + dist(w, score_call.total_warnings)
                       + dist(i, score_call.total_info) = 1
            /\ score_call' = [t EXCEPT !.total_deals = T] @@ [health_score |-> ScoreOf(t)]
            /\ UNCHANGED <<now, rules, deals_data, analysis, eval_rule, eval_deal,
                           eval_cond, eval_out, db, global_rules, custom_rules,
                           overrides, ctx, effective, eval_op, analysis_again, plan_call, tasks, loading>>

NextScore == ComputeHealthScore

SpecScore == InitScore /\ [][NextScore]_vars

\* RulesLoader.rules after analyze_deals went through the deals in order
RECURSIVE rules_after_batch(_, _, _)
rules_after_batch(rule_list, deals, k) ==
    IF k = 0 THEN rule_list
    ELSE rules_after_analysis(rules_after_batch(rule_list, deals, k - 1), deals[k])

\* engine.analyze_deals(deals) on a list the caller keeps: the engine, its
\* rules and the records are left as the call leaves them
AnalyzeFirst ==
    \E deals \in {<<>>} \cup {Append(deals_data, d) : d \in
                    IF Len(deals_data) < MaxBatch THEN DealUniverse ELSE {}} :
        /\ analysis' = analyze_deals(rules, deals, now)
        /\ deals_data' = records_after_analysis(deals)
        /\ rules' = rules_after_batch(rules, deals, Len(deals))
        /\ analysis_again' = NotCalled
        /\ UNCHANGED <<now, eval_rule, eval_deal, eval_cond, eval_out, db,
                       global_rules, custom_rules, overrides, ctx, effective,
                       eval_op, score_call, plan_call, tasks, loading>>

\* engine.analyze_deals(deals) once more, on the same engine and list
AnalyzeAgain ==
    /\ analysis # NotCalled
    /\ analysis_again = NotCalled
    /\ analysis_again' = analyze_deals(rules, deals_data, now)
    /\ deals_data' = records_after_analysis(deals_data)
    /\ rules' = rules_after_batch(rules, deals_data, Len(deals_data))
    /\ UNCHANGED <<now, analysis, eval_rule, eval_deal, eval_cond, eval_out, db,
                   global_rules, custom_rules, overrides, ctx, effective,
                   eval_op, score_call, plan_call, tasks, loading>>

NextTwice == AnalyzeFirst \/ AnalyzeAgain

SpecTwice == InitEngine /\ [][NextTwice]_vars

InitPlan ==
    /\ now \in 0..(TicksPerDay - 1)
    /\ eval_rule = NotCalled /\ eval_deal = NotCalled /\ eval_cond = NotCalled
    /\ eval_out = NotCalled
    /\ rules = StaticRules /\ deals_data = <<>> /\ analysis = NotCalled
    /\ LoaderIdle /\ CallsIdle

\* engine.get_remediation_plan(violations, group_by): the caller's list is
\* iterated and its dicts are appended to the groups, nothing is written to
\* it; the next call has one more violation, or another group_by
GetRemediationPlan ==
    \E group_by \in GroupBys :
    \E violations \in
          IF plan_call = NotCalled THEN {<<>>}
          ELSE {plan_call.violations_after}
               \cup (IF group_by # plan_call.group_by THEN {}
                     ELSE {<<>>} \cup
                          {Append(plan_call.violations_after, v) : v \in
                              IF Len(plan_call.violations_after) < MaxViolations
                              THEN PlanViolations ELSE {}}) :
        /\ plan_call' = [violations |-> violations,
                         group_by |-> group_by,
                         violations_after |-> violations,
                         plan |-> get_remediation_plan(violations, group_by)]
        /\ UNCHANGED <<now, rules, deals_data, analysis, eval_rule, eval_deal,
                       eval_cond, eval_out, db, global_rules, custom_rules,
                       overrides, ctx, effective, eval_op, score_call,
                       analysis_again, tasks, loading>>

NextPlan == GetRemediationPlan

SpecPlan == InitPlan /\ [][NextPlan]_vars

\* one engine, and a call of analyze_deals per task, each on a list of its
\* own, all entered and none past its first deal
InitTasks ==
    /\ now \in 0..(TicksPerDay - 1)
    /\ eval_rule = NotCalled /\ eval_deal = NotCalled /\ eval_cond = NotCalled
    /\ eval_out = NotCalled
    /\ rules = StaticRules /\ deals_data = <<>> /\ analysis = NotCalled
    /\ LoaderIdle
    /\ eval_op = NotCalled /\ score_call = NotCalled
    /\ analysis_again = NotCalled /\ plan_call = NotCalled
    /\ loading = NotCalled
    /\ tasks \in [TaskIds -> {[deals |-> b, pos |-> 0, per_deal |-> <<>>,
                               result |-> NotCalled] : b \in TaskBatches}]

\* one turn of the loop of analyze_deals in task t: analyze_deal on the next
\* deal, reading the engine's rules as they are at that moment
TaskAnalyzeDeal(t) ==
    /\ tasks[t].pos < Len(tasks[t].deals)
    /\ LET k == tasks[t].pos + 1
           deal == tasks[t].deals[k]
       IN  /\ tasks' = [tasks EXCEPT
                 ![t].pos = k,
                 ![t].per_deal = Append(@, analyze_deal(rules, deal, now)),
                 ![t].deals = [@ EXCEPT ![k] = records_after_analysis(<<deal>>)[1]]]
           /\ rules' = rules_after_analysis(rules, deal)
    /\ UNCHANGED <<now, deals_data, analysis, eval_rule, eval_deal, eval_cond,
                   eval_out, db, global_rules, custom_rules, overrides, ctx,
                   effective, eval_op, score_call, analysis_again, plan_call, loading>>

\* the end of analyze_deals in task t: score, groupings and the result dict
\* from the task's own counters
TaskReturn(t) ==
    /\ tasks[t].pos = Len(tasks[t].deals)
    /\ tasks[t].result = NotCalled
    /\ tasks' = [tasks EXCEPT ![t].result =
                    analysis_result(Len(tasks[t].deals),
                                    analyze_loop(tasks[t].deals, tasks[t].per_deal))]
    /\ UNCHANGED <<now, rules, deals_data, analysis, eval_rule, eval_deal,
                   eval_cond, eval_out, db, global_rules, custom_rules,
                   overrides, ctx, effective, eval_op, score_call,
                   analysis_again, plan_call, loading>>

NextTasks == \E t \in TaskIds : TaskAnalyzeDeal(t) \/ TaskReturn(t)

SpecTasks == InitTasks /\ [][NextTasks]_vars

\* a BusinessRulesEngine over a configuration, before the first analyze_deal
InitDeal ==
    /\ now \in 0..(TicksPerDay - 1)
    /\ rules \in RuleLists
    /\ deals_data = <<>>
    /\ analysis = NotCalled
    /\ EngineIdle /\ LoaderIdle

\* BusinessRulesEngine.analyze_deal(deal_data)
AnalyzeDeal ==
    \E deal_data \in EvalDeals :
        /\ eval_deal' = deal_data
        /\ eval_out' = analyze_deal(rules, deal_data, now)
        /\ UNCHANGED <<now, rules, deals_data, analysis, eval_rule, eval_cond, db,
                       global_rules, custom_rules, overrides, ctx, effective,
                       call_vars>>

NextDeal == AnalyzeDeal

SpecDeal == InitDeal /\ [][NextDeal]_vars

-----------------------------------------------------------------------------
(* Properties of analyze_deals.                                            *)

Analyzed == analysis # NotCalled /\ ~analysis.raised

\* round(max(0, (T - I)/T*100 - min((5c + 2w + 0.5i)/(10T)*100, 100)), 2) is
\* h hundredths: with S = max(0, 100(T - I) - min(5(10c + 4w + i), 100 T)) the
\* unrounded score is S/T, h/100 is a nearest multiple of 0.01 to it, and the
\* even one of two nearest
IsRoundedScore(h, T, I, c, w, i) ==
    LET pen == 5 * (10 * c + 4 * w + i)
        capped == IF pen <= 100 * T THEN pen ELSE 100 * T
        diff == 100 * (T - I) - capped
        S == IF diff >= 0 THEN diff ELSE 0
        err == 100 * S - h * T
        abs == IF err >= 0 THEN err ELSE 0 - err
    IN  /\ 2 * abs <= T
        /\ (2 * abs = T) => (h % 2 = 0)

AllSeverity(sev) ==
    \A k \in 1..Len(analysis.violations) : analysis.violations[k].severity = sev

\* C1: for every deal list with T = total_deals > 0, health_score is
\* round(max(0, (T - I)/T*100 - min((5c + 2w + 0.5i)/(10T)*100, 100)), 2) with
\* I = deals_with_issues and c, w, i the totals of the whole pipeline; 4 deals
\* of which 3 have one WARNING each score 10.0, 2 deals of which one has one
\* CRITICAL score 25.0, and 1 deal with 3 CRITICAL scores 0.0.
C1_HealthScoreFormula ==
    (Analyzed /\ Len(deals_data) > 0) =>
        /\ analysis.total_deals = Len(deals_data)
        /\ IsRoundedScore(analysis.health_score, Len(deals_data),
                          analysis.deals_with_issues, analysis.total_critical,
                          analysis.total_warnings, analysis.total_info)
        /\ (AllSeverity(WARNING) \/ AllSeverity(CRITICAL) \/ AllSeverity(INFO)) =>
              /\ analysis.total_warnings =
                    IF AllSeverity(WARNING) THEN Len(analysis.violations) ELSE 0
              /\ analysis.total_critical =
                    IF AllSeverity(CRITICAL) THEN Len(analysis.violations) ELSE 0
              /\ analysis.total_info =
                    IF AllSeverity(INFO) THEN Len(analysis.violations) ELSE 0
        /\ (/\ Len(deals_data) = 4 /\ analysis.deals_with_issues = 3
            /\ Len(analysis.violations) = 3 /\ AllSeverity(WARNING))
              => analysis.health_score = 1000
        /\ (/\ Len(deals_data) = 2 /\ analysis.deals_with_issues = 1
            /\ Len(analysis.violations) = 1 /\ AllSeverity(CRITICAL))
              => analysis.health_score = 2500
        /\ (/\ Len(deals_data) = 1 /\ Len(analysis.violations) = 3
            /\ AllSeverity(CRITICAL))
              => analysis.health_score = 0

\* C1 witness: four deals were analyzed, three of them with one WARNING each
C1_Witness ==
    /\ Analyzed /\ Len(deals_data) = 4 /\ analysis.deals_with_issues = 3
    /\ Len(analysis.violations) = 3 /\ AllSeverity(WARNING)
    /\ analysis.health_score = 1000

\* C2: for every rule list and deal list the health_score returned by
\* analyze_deals lies in [0, 100].
C2_HealthScoreRange ==
    Analyzed => (0 <= analysis.health_score /\ analysis.health_score <= 10000)

\* C2 witness: the penalty of the violations found exceeds the clean
\* percentage, and the score is clamped to 0
C2_Witness ==
    /\ Analyzed /\ Len(deals_data) > 1
    /\ analysis.deals_with_issues < Len(deals_data)
    /\ 5 * (10 * analysis.total_critical + 4 * analysis.total_warnings
              + analysis.total_info)
         > 100 * (Len(deals_data) - analysis.deals_with_issues)
    /\ analysis.health_score = 0

\* C3: when analyze_deals produces no violations, health_score is exactly
\* 100.0 for a non-empty deal list and exactly 0 for the empty deal list.
C3_NoViolationsScore ==
    (Analyzed /\ analysis.violations = <<>>) =>
        analysis.health_score = IF Len(deals_data) > 0 THEN 10000 ELSE 0

\* C3 witness: a non-empty deal list was analyzed and no rule fired
C3_Witness ==
    /\ Analyzed /\ Len(deals_data) > 1 /\ analysis.violations = <<>>
    /\ analysis.health_score = 10000

\* C3 witness of the empty deal list
C3_WitnessEmpty ==
    /\ Analyzed /\ deals_data = <<>> /\ analysis.health_score = 0

\* the rules analyze_deal evaluates for a deal
RulesInBatch(deal) ==
    IF truthy(Get(deal, stage)) THEN get_rules_for_stage(rules, Get(deal, stage))
    ELSE rules

\* a (rule, deal) pair whose evaluation raises
PairRaises(rule, deal) == evaluate_rule_try(rule, deal, now) = Raised

\* what the pairs of one deal yield, each evaluated on its own: the
\* violations of the pairs that do not raise, in rule order, tagged
IsolatedViolations(deal) ==
    LET batch == RulesInBatch(deal)
        each == [i \in 1..Len(batch) |-> evaluate_rule_try(batch[i], deal, now)]
        kept == SelectSeq(each, LAMBDA r : r # Raised /\ r # NoViolation)
    IN  [j \in 1..Len(kept) |-> tagged(deal, kept[j])]

\* C10: when a (rule, deal) pair raises, evaluate_rule returns None for it,
\* analyze_deals does not raise, and the violations reported are exactly
\* those the other pairs yield when each is evaluated on its own, in order.
C10_ExceptionIsolation ==
    analysis # NotCalled =>
        /\ ~analysis.raised
        /\ \A k \in 1..Len(deals_data) : \A i \in 1..Len(rules) :
              PairRaises(rules[i], deals_data[k]) =>
                  evaluate_rule(rules[i], deals_data[k], now) = NoViolation
        /\ analysis.violations =
              ConcatTo([k \in 1..Len(deals_data) |->
                           IsolatedViolations(deals_data[k])], Len(deals_data))

C10_Witness ==
    /\ Analyzed
    /\ Len(deals_data) >= 2
    /\ deals_data[1] = deal_malformed
    /\ \E i \in 1..Len(rules) :
          /\ InList(rules[i], RulesInBatch(deal_malformed))
          /\ PairRaises(rules[i], deal_malformed)
    /\ deals_data[2] = deal_three_critical
    /\ \E j \in 1..Len(analysis.violations) :
          analysis.violations[j].deal_id = Str(<<"1">>)
    /\ \E j \in 1..Len(analysis.violations) :
          analysis.violations[j].rule_id = "CO-001"

-----------------------------------------------------------------------------
(* Properties of ContextualRulesLoader.                                    *)

Resolved == ctx # NotCalled /\ effective # NotCalled

\* the override rows of one owner for rule id g
RowsOf(column, owner, g) ==
    {db.overrides[i] : i \in {j \in 1..Len(db.overrides) :
        db.overrides[j][column] = owner /\ db.overrides[j].globalRuleId = g}}

UserRows(g) == IF ctx.user_id = "" THEN {} ELSE RowsOf("userId", ctx.user_id, g)
OrgRows(g) == IF ctx.org_id = "" THEN {} ELSE RowsOf("orgId", ctx.org_id, g)

\* the rows of the winning override of rule id g: the user's, else the org's
WinningRows(g) == IF UserRows(g) # {} THEN UserRows(g) ELSE OrgRows(g)

RuleIds == {StaticRules[i].id : i \in 1..Len(StaticRules)}
StaticRule(g) == StaticRules[CHOOSE i \in 1..Len(StaticRules) : StaticRules[i].id = g]
GlobalPart == SelectSeq(effective, LAMBDA r : r.scope = "global")
EffectiveOf(g) == {effective[i] : i \in {j \in 1..Len(effective) : effective[j].id = g}}

\* the database without the org-scope override of rule id g
WithoutOrgOverride(g) ==
    [db EXCEPT !.overrides =
        SelectSeq(@, LAMBDA row : ~(row.orgId = ctx.org_id /\ row.globalRuleId = g))]

\* C4: with a user-scope and an org-scope override for the same global rule,
\* the effective list is the one resolved from the database without the org
\* override: a disabling user override removes the rule whatever the org
\* says, and an enabling user override without thresholds leaves the rule
\* present with its original condition.
C4_UserOverrideSupersedesOrg ==
    Resolved =>
        \A g \in RuleIds :
            (UserRows(g) # {} /\ OrgRows(g) # {}) =>
                /\ effective =
                     get_effective_rules(StaticRules,
                         load_context(WithoutOrgOverride(g), ctx.user_id,
                                      ctx.org_id).overrides,
                         custom_rules).effective
                /\ \A u \in UserRows(g) :
                     /\ ~u.enabled => EffectiveOf(g) = {}
                     /\ (u.enabled /\ u.thresholdOverrides = None) =>
                            EffectiveOf(g) = {StaticRule(g)}

C4_Witness ==
    /\ Resolved
    /\ \E u \in UserRows("SH-002"), o \in OrgRows("SH-002") :
          /\ ~u.enabled /\ o.enabled /\ o.thresholdOverrides = NewThreshold
    /\ EffectiveOf("SH-002") = {}

C4_WitnessOrgDisabled ==
    /\ Resolved
    /\ \E u \in UserRows("SH-002"), o \in OrgRows("SH-002") :
          /\ u.enabled /\ u.thresholdOverrides = None /\ ~o.enabled
    /\ EffectiveOf("SH-002") = {StaticRule("SH-002")}

\* new has the shape, fields and operators of orig, every "value" of orig is
\* v in new, and a leaf without "value" has none in new
RECURSIVE SameTreeWithValue(_, _, _)
SameTreeWithValue(orig, new, v) ==
    /\ DOMAIN new = DOMAIN orig
    /\ \A key \in DOMAIN orig :
          IF key = "value" THEN new[key] = v
          ELSE IF key \in {"all", "any"}
          THEN /\ Len(new[key]) = Len(orig[key])
               /\ \A i \in 1..Len(orig[key]) :
                     SameTreeWithValue(orig[key][i], new[key][i], v)
          ELSE new[key] = orig[key]

HasValueOverride(row) ==
    /\ row.enabled
    /\ row.thresholdOverrides # None
    /\ "value" \in DOMAIN row.thresholdOverrides

\* C5: a global rule whose winning override is enabled and carries a "value"
\* threshold appears with a condition tree of the same shape, fields and
\* operators, in which every leaf that had a value holds the override's
\* value, at every depth of all/any, and a leaf without a value has none.
C5_ThresholdPropagation ==
    Resolved =>
        \A g \in RuleIds : \A w \in WinningRows(g) :
            HasValueOverride(w) =>
                /\ EffectiveOf(g) # {}
                /\ \A r \in EffectiveOf(g) :
                      SameTreeWithValue(StaticRule(g).condition, r.condition,
                                        w.thresholdOverrides.value)

C5_Witness ==
    /\ Resolved
    /\ \E w \in WinningRows("SH-002") : HasValueOverride(w)
    /\ \E r \in EffectiveOf("SH-002") :
          /\ r.condition.all[1].value = Num(99)
          /\ r.condition.all[2].any[2].value = Num(99)
          /\ "value" \notin DOMAIN r.condition.all[2].any[1]

\* C6: whatever load_context and get_effective_rules calls were made, the
\* loader's global rules are the rules of the static configuration, so a
\* context without overrides resolves to the original rules.
C6_GlobalRulesUnmodified ==
    /\ global_rules = StaticRules
    /\ (Resolved /\ overrides = NoOverrides) => GlobalPart = StaticRules

C6_Witness ==
    /\ Resolved
    /\ \E r \in EffectiveOf("SH-002") : r.condition # StaticRule("SH-002").condition
    /\ global_rules = StaticRules

\* the enabled custom rows of one owner
EnabledCustom(column, owner) ==
    {db.custom[i] : i \in {j \in 1..Len(db.custom) :
        db.custom[j][column] = owner /\ db.custom[j].enabled}}

\* the global rule the effective list holds for static rule r
ExpectedGlobal(r) ==
    IF \E w \in WinningRows(r.id) : HasValueOverride(w)
    THEN LET w == CHOOSE w \in WinningRows(r.id) : TRUE
         IN  [r EXCEPT !.condition =
                 _apply_overrides_to_condition(r.condition, w.thresholdOverrides)]
    ELSE r

ExpectedGlobals ==
    LET kept == SelectSeq(StaticRules,
                    LAMBDA r : \A w \in WinningRows(r.id) : w.enabled)
    IN  [i \in 1..Len(kept) |-> ExpectedGlobal(kept[i])]

\* part is the enabled custom rules of one owner, each once, by priority
\* descending
IsCustomGroup(part, scope, rows) ==
    /\ Len(part) = Cardinality(rows)
    /\ {part[i].id : i \in 1..Len(part)} = {row.ruleId : row \in rows}
    /\ \A i \in 1..Len(part) : part[i].scope = scope /\ part[i].enabled
    /\ \A i \in 1..(Len(part) - 1) : part[i].priority >= part[i + 1].priority

\* C7: the effective list is the global rules in static order, without the
\* rules whose winning override disables them and with the overridden copy
\* where the winning override has thresholds, then the enabled custom rules
\* of the org, then those of the user, each group by priority descending; no
\* disabled rule and no rule of another owner appears.
C7_EffectiveRuleList ==
    Resolved =>
        LET org_rows == IF ctx.org_id = "" THEN {}
                        ELSE EnabledCustom("orgId", ctx.org_id)
            user_rows == IF ctx.user_id = "" THEN {}
                         ELSE EnabledCustom("userId", ctx.user_id)
            g == Len(ExpectedGlobals)
            o == Cardinality(org_rows)
        IN  /\ Len(effective) = g + o + Cardinality(user_rows)
            /\ SubSeq(effective, 1, g) = ExpectedGlobals
            /\ IsCustomGroup(SubSeq(effective, g + 1, g + o), "org", org_rows)
            /\ IsCustomGroup(SubSeq(effective, g + o + 1, Len(effective)),
                             "user", user_rows)

C7_Witness ==
    /\ Resolved
    /\ ctx.user_id # "" /\ ctx.org_id # ""
    /\ Len(effective) = Len(StaticRules) + 1
    /\ EffectiveOf("SH-002") = {}
    /\ effective[Len(StaticRules)].id = "ORG-HIGH"
    /\ effective[Len(StaticRules) + 1].id = "ORG-LOW"
    /\ db.custom[1].ruleId = "ORG-LOW"
    /\ \E i \in 1..Len(db.custom) : db.custom[i].ruleId = "USER-OFF"


-----------------------------------------------------------------------------
(* Properties of RuleEvaluator.evaluate_rule.                              *)

\* the deal's stage as the gate reads it: a str, the empty str when missing
HasStringStage(deal_data) ==
    stage \notin DOMAIN deal_data \/ deal_data[stage].t = "str"

StageOf(deal_data) ==
    IF stage \in DOMAIN deal_data THEN deal_data[stage].v ELSE <<>>

\* the stage gate in words: with the sentinel, every stage but the four closed
\* names in any letter case; without it, the exact members of the list
GatePasses(stages, deal_stage) ==
    IF InList(all_except_closed, stages)
    THEN str_lower(deal_stage) \notin ClosedStages
    ELSE InList(deal_stage, stages)

\* C8: for a rule with a non-empty applicable_stages and a deal whose stage
\* is a string, evaluate_rule returns a Violation exactly when the stage gate
\* passes and the condition is true; a gated-out deal yields None whatever
\* the condition gives.
C8_StageGate ==
    (/\ eval_rule # NotCalled
     /\ eval_rule.applicable_stages # <<>>
     /\ HasStringStage(eval_deal)) =>
        /\ eval_out # Raised
        /\ (eval_out # NoViolation) <=>
              /\ GatePasses(eval_rule.applicable_stages, StageOf(eval_deal))
              /\ evaluate_condition(eval_rule.condition, eval_deal, now) = True
        /\ eval_out # NoViolation => eval_out.rule_id = eval_rule.id

C8_Witness ==
    /\ eval_rule # NotCalled
    /\ eval_rule.applicable_stages = <<all_except_closed>>
    /\ HasStringStage(eval_deal)
    /\ StageOf(eval_deal) = closed_lost_upper
    /\ evaluate_condition(eval_rule.condition, eval_deal, now) = True
    /\ eval_out = NoViolation

C8_WitnessFires ==
    /\ eval_rule # NotCalled
    /\ eval_rule.applicable_stages = <<Discovery, Proposal>>
    /\ StageOf(eval_deal) = Proposal
    /\ eval_out # NoViolation /\ eval_out # Raised


-----------------------------------------------------------------------------
(* Properties of RuleEvaluator.evaluate_condition.                         *)

\* what evaluate_condition gives for child i of a child list
ChildResult(cs, i) == evaluate_condition(cs[i], eval_deal, now)

\* Python's "a and b" over calls that may raise
py_and(a, b) == IF a = True THEN b ELSE a

\* the laws at one compound node, given its result; any: the first child
\* that is not false is true
AllLaw(cs, result) ==
    /\ (result = True) <=> \A i \in 1..Len(cs) : ChildResult(cs, i) = True
    /\ Len(cs) = 0 => result = True
    /\ Len(cs) = 2 => result = py_and(ChildResult(cs, 1), ChildResult(cs, 2))

AnyLaw(cs, result) ==
    /\ (result = True) <=>
          \E i \in 1..Len(cs) :
              /\ ChildResult(cs, i) = True
              /\ \A j \in 1..(i - 1) : ChildResult(cs, j) = False
    /\ Len(cs) = 0 => result = False

\* the any law as first stated: true iff some child is true
AnyLawUnconditional(cs, result) ==
    (result = True) <=> \E i \in 1..Len(cs) : ChildResult(cs, i) = True

\* the laws at every compound node of a condition
RECURSIVE LawsHold(_)
LawsHold(condition) ==
    IF "all" \in DOMAIN condition
    THEN /\ AllLaw(condition.all, evaluate_condition(condition, eval_deal, now))
         /\ \A i \in 1..Len(condition.all) : LawsHold(condition.all[i])
    ELSE IF "any" \in DOMAIN condition
    THEN /\ AnyLaw(condition.any, evaluate_condition(condition, eval_deal, now))
         /\ \A i \in 1..Len(condition.any) : LawsHold(condition.any[i])
    ELSE TRUE

\* C9: at every nesting depth, {all: cs} is true iff every child
\* evaluates true (true for the empty list, and {all:[A,B]} is "A and B");
\* {any: cs} is true iff some child evaluates true and every child before it
\* evaluates false, none raising (false for the empty list).
C9_CompoundLaws ==
    eval_cond # NotCalled =>
        /\ eval_out = evaluate_condition(eval_cond, eval_deal, now)
        /\ LawsHold(eval_cond)

\* C9, the any law without the order of evaluation: {any: cs} is true iff at
\* least one child evaluates true.
C9_AnyTrueIffSomeChildTrue ==
    (eval_cond # NotCalled /\ "any" \in DOMAIN eval_cond) =>
        AnyLawUnconditional(eval_cond.any, eval_out)

\* an any whose first child raises and whose second child is true
C9_Witness ==
    /\ eval_cond # NotCalled
    /\ "any" \in DOMAIN eval_cond
    /\ Len(eval_cond.any) = 2
    /\ ChildResult(eval_cond.any, 1) = Raise
    /\ ChildResult(eval_cond.any, 2) = True
    /\ eval_out = Raise

C9_WitnessNested ==
    /\ eval_cond # NotCalled
    /\ "all" \in DOMAIN eval_cond
    /\ Len(eval_cond.all) = 2
    /\ "any" \in DOMAIN eval_cond.all[1]
    /\ eval_out = True

-----------------------------------------------------------------------------
(* Properties of error handling.                                           *)

\* the operators that take a threshold
ThresholdOperators == OPERATORS \ {"is_empty", "is_null_or_zero", "is_past"}

\* a condition with a broken leaf: no field, no operator, an unknown
\* operator name, or a threshold operator without a value
RECURSIVE Malformed(_)
Malformed(condition) ==
    IF "all" \in DOMAIN condition
    THEN \E i \in 1..Len(condition.all) : Malformed(condition.all[i])
    ELSE IF "any" \in DOMAIN condition
    THEN \E i \in 1..Len(condition.any) : Malformed(condition.any[i])
    ELSE \/ "field" \notin DOMAIN condition
         \/ "operator" \notin DOMAIN condition
         \/ /\ "operator" \in DOMAIN condition
            /\ \/ condition.operator \notin OPERATORS
               \/ /\ condition.operator \in ThresholdOperators
                  /\ "value" \notin DOMAIN condition

\* the malformed rules analyze_deals evaluated, on some deal of the batch
MalformedEvaluated ==
    {r \in {rules[i] : i \in 1..Len(rules)} :
        /\ Malformed(r.condition)
        /\ \E k \in 1..Len(deals_data) :
              /\ InList(r, RulesInBatch(deals_data[k]))
              /\ stage_gate(r, deals_data[k]) = "pass"}

\* C11: a malformed rule that the engine evaluates is surfaced as a raised
\* error: analyze_deals returns no analysis result once it has evaluated one.
C11_MalformedRuleSurfaces ==
    (analysis # NotCalled /\ MalformedEvaluated # {}) => analysis.raised

\* the state that refutes it: an unknown operator evaluated on a deal whose
\* amount exceeds the threshold, and a result without any trace of the rule
C11_SilentlyAbsorbed ==
    /\ Analyzed
    /\ deals_data = <<deal_clean>>
    /\ \E r \in MalformedEvaluated : r.id = "FC-002"
    /\ analysis.violations = <<>>
    /\ analysis.health_score = 10000

\* the ten registered operator names, and those that take a threshold
RegisteredNames ==
    {"is_empty", "is_null_or_zero", "is_past", "older_than_days", "within_days",
     "more_than_days_away", "greater_than", "less_than", "equals", "in"}
NeedThreshold ==
    {"older_than_days", "within_days", "more_than_days_away", "greater_than",
     "less_than", "equals", "in"}

\* a leaf that lacks field or operator (absent or empty)
LacksFieldOrOperator(leaf) ==
    \/ "field" \notin DOMAIN leaf \/ "operator" \notin DOMAIN leaf
    \/ ("field" \in DOMAIN leaf /\ leaf.field = <<>>)
    \/ ("operator" \in DOMAIN leaf /\ leaf.operator = "")

\* C12: evaluate_operator raises for every name outside the ten registered
\* ones whatever the value, and for each threshold operator called without a
\* threshold; is_empty, is_null_or_zero and is_past give the same result with
\* and without one; evaluate_condition raises on a leaf that lacks field or
\* operator.
C12_ConfigurationErrorsRaise ==
    /\ eval_op # NotCalled =>
          /\ eval_op.operator \notin RegisteredNames => eval_op.result = Raise
          /\ (eval_op.operator \in NeedThreshold /\ eval_op.threshold = None) =>
                eval_op.result = Raise
          /\ eval_op.operator \in RegisteredNames \ NeedThreshold =>
                /\ \A th \in OpThresholds :
                      eval_op.result =
                          evaluate_operator(eval_op.operator, eval_op.value, th, now)
                /\ eval_op.operator # "is_past" => eval_op.result \in {True, False}
    /\ (eval_cond # NotCalled /\ LacksFieldOrOperator(eval_cond)) =>
          eval_out = Raise

C12_Witness ==
    /\ eval_op # NotCalled
    /\ eval_op.operator = "greater_than"
    /\ eval_op.value = Num(50)
    /\ eval_op.threshold = None
    /\ eval_op.result = Raise
    /\ eval_cond = [operator |-> "is_empty"]
    /\ eval_out = Raise

C12_WitnessNoThreshold ==
    /\ eval_op # NotCalled
    /\ eval_op.operator = "is_empty"
    /\ eval_op.threshold = None
    /\ eval_op.result = True

\* a threshold of the kind the operator compares with
ValidThreshold(operator, threshold) ==
    CASE operator \in {"is_empty", "is_null_or_zero", "is_past"} -> TRUE
      [] operator \in {"older_than_days", "within_days", "more_than_days_away",
                       "greater_than", "less_than"} -> threshold.t = "num"
      [] operator = "equals" -> threshold.t # "none"
      [] operator = "in" -> threshold.t = "list"
      [] OTHER -> FALSE

\* C13: every registered operator called with a valid threshold returns a
\* boolean for any field value (null, a string that is no date or number, an
\* ISO-8601 string with a timezone suffix, a value of an unexpected type) and
\* never raises.
C13_OperatorsNeverRaise ==
    (/\ eval_op # NotCalled
     /\ eval_op.operator \in RegisteredNames
     /\ ValidThreshold(eval_op.operator, eval_op.threshold))
        => eval_op.result \in {True, False}

\* within_days on a timezone-aware string raises
C13_AwareDateRaises ==
    /\ eval_op # NotCalled
    /\ eval_op.operator = "within_days"
    /\ eval_op.value = tomorrow_utc
    /\ eval_op.threshold = Num(1)
    /\ eval_op.result = Raise

\* is_past on a value that is neither a string nor a datetime raises
C13_UnexpectedTypeRaises ==
    /\ eval_op # NotCalled
    /\ eval_op.operator = "is_past"
    /\ eval_op.value = Num(50)
    /\ eval_op.result = Raise

(* Field lookup. *)
\* the camelCase spelling of the snake_case field names of the rules
CamelName(field) ==
    CASE field = f_close_date -> f_closeDate
      [] field = f_next_steps -> <<"n","e","x","t","S","t","e","p","s">>
      [] field = f_forecast_category ->
            <<"f","o","r","e","c","a","s","t","C","a","t","e","g","o","r","y">>
      [] OTHER -> field

\* literal key first; the camelCase key only when that gave null and the
\* name has an underscore; null when neither key is there
TwoStep(deal_data, field) ==
    LET literal == IF field \in DOMAIN deal_data THEN deal_data[field] ELSE None
    IN  IF literal # None THEN literal
        ELSE IF CamelName(field) # field /\ CamelName(field) \in DOMAIN deal_data
             THEN deal_data[CamelName(field)]
        ELSE None

IsLeafRule(rule) == {"field", "operator"} \subseteq DOMAIN rule.condition

Gated(rule, deal_data) ==
    \/ rule.applicable_stages = <<>>
    \/ /\ HasStringStage(deal_data)
       /\ GatePasses(rule.applicable_stages, StageOf(deal_data))

\* C14: a leaf rule that reaches its condition is decided by the operator on
\* the two-step value of its field (literal key, then the camelCase key when
\* the literal one gave null and the name has an underscore, else null); a
\* field under neither key reads as null, so is_empty holds for it; the
\* Violation's current_value is the text of the same two-step value.
C14_TwoStepLookup ==
    (/\ eval_rule # NotCalled
     /\ IsLeafRule(eval_rule)
     /\ Gated(eval_rule, eval_deal)) =>
        LET cond == eval_rule.condition
            value == TwoStep(eval_deal, cond.field)
            result == evaluate_operator(cond.operator, value, Get(cond, "value"), now)
        IN  /\ (eval_out # NoViolation) <=> (result = True)
            /\ eval_out # NoViolation =>
                  /\ eval_out.field_name = Str(cond.field)
                  /\ eval_out.current_value =
                        (IF value = None THEN None ELSE py_str(value))
            /\ (/\ cond.operator = "is_empty"
                /\ cond.field \notin DOMAIN eval_deal
                /\ CamelName(cond.field) \notin DOMAIN eval_deal) =>
                    /\ eval_out # NoViolation
                    /\ eval_out.current_value = None

\* SH-001 fires on a deal that has closeDate only
C14_Witness ==
    /\ eval_rule # NotCalled
    /\ eval_rule.id = "SH-001"
    /\ eval_deal = deal_camel_only
    /\ eval_out # NoViolation
    /\ eval_out.current_value = yesterday

\* the literal key wins when it holds a value
C14_WitnessLiteralWins ==
    /\ eval_rule # NotCalled
    /\ eval_rule.id = "SH-001"
    /\ eval_rule.applicable_stages = <<>>
    /\ eval_deal = deal_both_keys
    /\ eval_out = NoViolation

\* a name missing under both keys is empty
C14_WitnessAbsent ==
    /\ eval_rule # NotCalled
    /\ eval_rule.id = "DQ-001"
    /\ eval_deal = deal_null_literal
    /\ eval_out # NoViolation
    /\ eval_out.current_value = None

(* Monotonicity of the health score. *)
\* the tallies of the same number of deals that are at least t in every count
AtLeast(t) ==
    { b \in { Tally(t.total_deals, D, c, w, i) :
                D \in t.deals_with_issues..t.total_deals,
                c \in t.total_critical..MaxTally,
                w \in t.total_warnings..MaxTally,
                i \in t.total_info..MaxTally } : IsTally(b) }

\* C15: for a fixed number of deals T > 0, an outcome with at least as many
\* deals with issues and at least as many CRITICAL, WARNING and INFO
\* violations never has a higher health score; adding a CRITICAL violation to
\* a clean deal never raises the score.
C15_HealthScoreMonotone ==
    score_call # NotCalled =>
        \A b \in AtLeast(score_call) : ScoreOf(b) <= score_call.health_score

\* one of two deals gained a CRITICAL violation: 100.00 fell to 25.00
C15_Witness ==
    /\ score_call # NotCalled
    /\ score_call.total_deals = 2
    /\ score_call.deals_with_issues = 1
    /\ score_call.total_critical = 1
    /\ score_call.total_warnings = 0
    /\ score_call.total_info = 0
    /\ score_call.health_score = 2500
    /\ ScoreOf(Tally(2, 0, 0, 0, 0)) = 10000

DealsWithViolation ==
    {k \in 1..Len(deals_data) : IsolatedViolations(deals_data[k]) # <<>>}

\* C17: deals_with_issues is the number of input deals that produced at
\* least one violation of any severity, a severity outside CRITICAL, WARNING
\* and INFO included; total_deals is the number of input deals; and
\* deals_with_issues <= total_deals.
C17_DealsWithIssues ==
    Analyzed =>
        /\ analysis.total_deals = Len(deals_data)
        /\ analysis.deals_with_issues = Cardinality(DealsWithViolation)
        /\ analysis.deals_with_issues <= analysis.total_deals

\* a deal with three violations and a deal whose only violations carry the
\* severities Critical and LOW count once each; the clean deal does not
C17_Witness ==
    /\ Analyzed
    /\ deals_data = <<deal_three_critical, deal_clean, deal_malformed>>
    /\ analysis.total_deals = 3
    /\ analysis.deals_with_issues = 2
    /\ Len(analysis.violations) = 5
    /\ \A j \in 4..5 : analysis.violations[j].severity \notin {CRITICAL, WARNING, INFO}

(* The severity view. *)
\* how often a record occurs in a list
Occurrences(seq, r) == Cardinality({j \in 1..Len(seq) : seq[j] = r})

\* the severity string a bucket name stands for
BucketSeverity(name) ==
    CASE name = "CRITICAL" -> CRITICAL
      [] name = "WARNING" -> WARNING
      [] name = "INFO" -> INFO

\* C18: violations_by_severity has exactly the keys CRITICAL, WARNING and
\* INFO, empty buckets included; a violation of the flat list whose severity
\* is exactly one of the three is in its own bucket as often as in the flat
\* list and in no other; a violation with any other severity is in no bucket
\* and stays in the flat list; a bucket holds nothing else.
C18_SeverityBuckets ==
    Analyzed =>
        LET grouped == analysis.violations_by_severity
            flat == analysis.violations
        IN  /\ DOMAIN grouped = {"CRITICAL", "WARNING", "INFO"}
            /\ \A name \in DOMAIN grouped :
                  /\ \A i \in 1..Len(grouped[name]) :
                        Occurrences(flat, grouped[name][i]) > 0
                  /\ \A j \in 1..Len(flat) :
                        Occurrences(grouped[name], flat[j]) =
                            IF flat[j].severity = BucketSeverity(name)
                            THEN Occurrences(flat, flat[j]) ELSE 0

\* three CRITICAL violations in their bucket, the violations with the
\* severities Critical and LOW in none
C18_Witness ==
    /\ Analyzed
    /\ deals_data = <<deal_malformed, deal_three_critical>>
    /\ Len(analysis.violations) = 5
    /\ analysis.violations[1].severity = <<"C","r","i","t","i","c","a","l">>
    /\ analysis.violations[2].severity = <<"L","O","W">>
    /\ Len(analysis.violations_by_severity.CRITICAL) = 3
    /\ analysis.violations_by_severity.WARNING = <<>>
    /\ analysis.violations_by_severity.INFO = <<>>

(* Remediation plans. *)
\* the key a violation is grouped by
GroupKey(v, group_by) ==
    IF group_by = "owner"
    THEN (IF "remediation_owner" \in DOMAIN v THEN v.remediation_owner ELSE "Unknown")
    ELSE (IF "category" \in DOMAIN v THEN v.category ELSE "UNKNOWN")

\* the group of key g holds the violations of that key, each position of the
\* input once, in input order
IsGroupOf(group, violations, group_by, g) ==
    LET positions == {j \in 1..Len(violations) : GroupKey(violations[j], group_by) = g}
        nth(i) == CHOOSE j \in positions :
                      Cardinality({j2 \in positions : j2 < j}) = i - 1
    IN  /\ Len(group) = Cardinality(positions)
        /\ \A i \in 1..Len(group) : group[i] = violations[nth(i)]

\* C19: get_remediation_plan by owner or by category (the grouping behind
\* violations_by_category) puts every input violation into exactly one group,
\* keyed by its category or by its remediation_owner ("Unknown" when the key
\* is absent), drops and duplicates none, keeps the input order inside a
\* group and leaves the input list unchanged; any other group_by raises.
C19_PureRegrouping ==
    plan_call # NotCalled =>
        /\ plan_call.violations_after = plan_call.violations
        /\ plan_call.group_by \notin {"owner", "category"} => plan_call.plan.raised
        /\ plan_call.group_by \in {"owner", "category"} =>
              /\ ~plan_call.plan.raised
              /\ DOMAIN plan_call.plan.groups =
                    {GroupKey(plan_call.violations[j], plan_call.group_by) :
                        j \in 1..Len(plan_call.violations)}
              /\ \A g \in DOMAIN plan_call.plan.groups :
                    IsGroupOf(plan_call.plan.groups[g], plan_call.violations,
                              plan_call.group_by, g)
              /\ plan_call.group_by = "category" =>
                    plan_call.plan.groups = _group_violations_by_category(plan_call.violations)

\* Rep, a violation without owner, Rep again: two groups, Rep in input order
C19_Witness ==
    /\ plan_call # NotCalled
    /\ plan_call.group_by = "owner"
    /\ Len(plan_call.violations) = 3
    /\ plan_call.violations[1].id = "3"
    /\ plan_call.violations[2].id = "4"
    /\ plan_call.violations[3].id = "1"
    /\ ~plan_call.plan.raised
    /\ DOMAIN plan_call.plan.groups = {"Rep", "Unknown"}
    /\ plan_call.plan.groups["Rep"] = <<plan_call.violations[1], plan_call.violations[3]>>
    /\ plan_call.plan.groups["Unknown"] = <<plan_call.violations[2]>>

C19_WitnessRaises ==
    /\ plan_call # NotCalled
    /\ plan_call.group_by = "severity"
    /\ Len(plan_call.violations) = 2
    /\ plan_call.plan.raised

IsViolation(out) == out # NotCalled /\ out # NoViolation /\ out # Raised

\* the leaf reached by descending into the first child of each all / any
\* node; NoLeaf when an empty list ends the descent
NoLeaf == [t |-> "noleaf"]

RECURSIVE FirstLeaf(_)
FirstLeaf(condition) ==
    IF DOMAIN condition \cap {"all", "any"} = {} THEN condition
    ELSE LET children == IF "all" \in DOMAIN condition THEN condition.all
                         ELSE condition.any
         IN  IF children = <<>> THEN NoLeaf ELSE FirstLeaf(children[1])

\* the text of a leaf's value: str(value), a list joined by ", ", None
\* when the leaf has none
ValueText(leaf) ==
    IF "value" \notin DOMAIN leaf THEN None
    ELSE IF leaf.value.t = "list"
    THEN Str(str_join_sep([i \in 1..Len(leaf.value.v) |-> py_str(leaf.value.v[i]).v],
                          <<",", " ">>))
    ELSE py_str(leaf.value)

\* C21: the expected_value of every violation is the string form of the
\* value of the condition's first leaf (a list joined by ", ", null when the
\* leaf has no value), for a single leaf and for an all / any compound.
C21_ExpectedValueOfFirstLeaf ==
    (eval_rule # NotCalled /\ IsViolation(eval_out)) =>
        eval_out.expected_value = ValueText(FirstLeaf(eval_rule.condition))

\* SH-002 (all of amount > 10 and ...) fires and reports no expected value
C21_CompoundHasNoExpectedValue ==
    /\ eval_rule # NotCalled
    /\ eval_rule.id = "SH-002"
    /\ IsViolation(eval_out)
    /\ FirstLeaf(eval_rule.condition) = leaf_amount_big
    /\ eval_out.field_name = Str(f_amount)
    /\ eval_out.expected_value = None

\* a leaf rule reports its value
C21_LeafHasExpectedValue ==
    /\ eval_rule # NotCalled
    /\ eval_rule.id = "CO-001"
    /\ IsViolation(eval_out)
    /\ eval_out.expected_value = Str(<<"7">>)

\* C22: the field_name of every violation is the field of the first leaf
\* reached by descending into the first child of each all / any node,
\* whichever child made the condition true, and null only when there is no
\* such leaf; current_value is the string form of the deal's value for that
\* field, null when the deal has none.
C22_FieldNameOfFirstLeaf ==
    (eval_rule # NotCalled /\ IsViolation(eval_out)) =>
        LET leaf == FirstLeaf(eval_rule.condition)
            value == IF leaf = NoLeaf THEN None ELSE TwoStep(eval_deal, leaf.field)
        IN  /\ eval_out.field_name =
                  (IF leaf = NoLeaf THEN None ELSE Str(leaf.field))
            /\ eval_out.current_value =
                  (IF value = None THEN None ELSE py_str(value))

\* any of (amount > 10, name is empty) fires through its second child and
\* reports the field of the first
C22_Witness ==
    /\ eval_rule # NotCalled
    /\ eval_rule.id = "CP-001"
    /\ eval_deal = deal_three_critical
    /\ evaluate_condition(leaf_amount_big, eval_deal, now) = False
    /\ IsViolation(eval_out)
    /\ eval_out.field_name = Str(f_amount)
    /\ eval_out.current_value = Str(<<"0">>)

\* an empty all is true and has no leaf
C22_WitnessNoLeaf ==
    /\ eval_rule # NotCalled
    /\ eval_rule.id = "CP-003"
    /\ IsViolation(eval_out)
    /\ eval_out.field_name = None
    /\ eval_out.current_value = None

(* Order and attribution of the flat list. *)
\* the first of the deal's deal_id, id and external_id that is there and is
\* not the empty string
FirstNonEmptyId(deal) ==
    LET present(key) == Get(deal, key) # None /\ Get(deal, key) # Str(<<>>)
    IN  IF present(deal_id) THEN Get(deal, deal_id)
        ELSE IF present(id) THEN Get(deal, id)
        ELSE IF present(external_id) THEN Get(deal, external_id)
        ELSE None

\* a deal's violations in rule order, each carrying that id
AttributedViolations(deal) ==
    [j \in 1..Len(IsolatedViolations(deal)) |->
        [IsolatedViolations(deal)[j] EXCEPT !.deal_id = FirstNonEmptyId(deal)]]

\* C23: the flat violations list is the concatenation, in deal input order,
\* of each deal's violations in rule-list order, and every entry carries the
\* id of the deal that produced it: the first non-empty of the deal's
\* deal_id, id and external_id.
C23_OrderAndAttribution ==
    Analyzed =>
        analysis.violations =
            ConcatTo([k \in 1..Len(deals_data) |->
                         AttributedViolations(deals_data[k])], Len(deals_data))

\* the violations of the deal whose id is 0 carry no deal id
C23_ZeroIdLost ==
    /\ Analyzed
    /\ deals_data = <<deal_three_critical, deal_malformed>>
    /\ Get(deal_malformed, id) = Num(0)
    /\ Len(analysis.violations) = 5
    /\ analysis.violations[3].deal_id = Str(<<"1">>)
    /\ analysis.violations[4].rule_id = "EN-001"
    /\ analysis.violations[4].deal_id = None
    /\ analysis.violations[5].deal_id = None

(* The stage pre-filter against the stage gate. *)
closed_won_trailing == <<"C","l","o","s","e","d"," ","W","o","n"," ">>

\* C24: for every deal, whatever its stage (strings with leading or trailing
\* whitespace and non-string values included), and every rule list, the
\* violations of analyze_deal (rules pre-filtered by get_rules_for_stage,
\* then evaluate_all_rules) are those of evaluate_all_rules over the full
\* rule list.
C24_PreFilterIsRedundant ==
    (eval_out # NotCalled /\ eval_rule = NotCalled /\ eval_cond = NotCalled) =>
        /\ ~eval_out.raised
        /\ eval_out.violations = evaluate_all_rules(rules, eval_deal, now).violations

\* stage 'Closed Won ': the pre-filter strips it and drops the rules for
\* open deals, the stage gate does not and evaluates them
C24_TrailingBlankDiffers ==
    /\ eval_out # NotCalled /\ eval_rule = NotCalled /\ eval_cond = NotCalled
    /\ rules = StaticRules
    /\ eval_deal = WithStage(deal_three_critical, closed_won_trailing)
    /\ Len(eval_out.violations) = 1
    /\ Len(evaluate_all_rules(rules, eval_deal, now).violations) = 3

(* The stage gate on stages that are no strings. *)
\* the deal's stage as a string: empty when the key is absent or None
CoercedStage(deal_data) ==
    IF stage \notin DOMAIN deal_data \/ deal_data[stage] = None THEN <<>>
    ELSE py_str(deal_data[stage]).v

\* C25: for a rule with non-empty applicable_stages the gate works on the
\* deal's stage coerced to a string, a missing or None stage being the empty
\* string: a deal whose stage is absent, None or a non-string scalar is gated
\* like any non-closed stage that is no member, so a rule with
\* ["all_except_closed"] is evaluated on it and yields a Violation when its
\* condition is true.
C25_StageCoercedToString ==
    (eval_rule # NotCalled /\ eval_rule.applicable_stages # <<>>) =>
        (IsViolation(eval_out) <=>
            /\ GatePasses(eval_rule.applicable_stages, CoercedStage(eval_deal))
            /\ evaluate_condition(eval_rule.condition, eval_deal, now) = True)

\* stage None: the rule for open deals is true of the deal and yields nothing
C25_NoneStageSwallowed ==
    /\ eval_rule # NotCalled
    /\ eval_rule.id = "DQ-002"
    /\ eval_rule.applicable_stages = <<all_except_closed>>
    /\ eval_deal = deal_null_stage
    /\ evaluate_condition(eval_rule.condition, eval_deal, now) = True
    /\ stage_gate(eval_rule, eval_deal) = "raise"
    /\ eval_out = NoViolation

\* stage 3: the same
C25_NumberStageSwallowed ==
    /\ eval_rule # NotCalled
    /\ eval_rule.id = "CO-001"
    /\ eval_rule.applicable_stages = <<all_except_closed>>
    /\ eval_deal = deal_malformed
    /\ evaluate_condition(eval_rule.condition, eval_deal, now) = True
    /\ eval_out = NoViolation

\* no stage key: the rule fires
C25_AbsentStageFires ==
    /\ eval_rule # NotCalled
    /\ eval_rule.id = "DQ-002"
    /\ eval_rule.applicable_stages = <<all_except_closed>>
    /\ eval_deal = WithoutStage(deal_three_critical)
    /\ IsViolation(eval_out)

(* equals against a null target. *)
\* C26: a leaf with operator equals whose target value is null evaluates to
\* true against a deal whose field is null or missing and to false against a
\* deal whose field is not null, through evaluate_operator and through
\* evaluate_condition.
C26_EqualsNullTarget ==
    /\ (eval_op # NotCalled /\ eval_op.operator = "equals"
            /\ eval_op.threshold = None) =>
          eval_op.result = Bool(eval_op.value = None)
    /\ (eval_cond # NotCalled /\ eval_cond = leaf_steps_null) =>
          eval_out = Bool(_get_field_value(eval_deal, f_next_steps) = None)

\* both null: the operator itself says true, the dispatcher raises
C26_BothNullRaises ==
    /\ eval_op # NotCalled
    /\ eval_op.operator = "equals"
    /\ eval_op.value = None /\ eval_op.threshold = None
    /\ equals(eval_op.value, eval_op.threshold) = True
    /\ eval_op.result = Raise
    /\ eval_cond = leaf_steps_null
    /\ _get_field_value(eval_deal, f_next_steps) = None
    /\ eval_out = Raise

\* a field that is not null against the null target: raises as well
C26_NonNullRaises ==
    /\ eval_cond # NotCalled
    /\ eval_cond = leaf_steps_null
    /\ _get_field_value(eval_deal, f_next_steps) # None
    /\ eval_out = Raise

(* The totals against the severity buckets. *)
\* C27: in every analysis result, whatever severity strings the rules carry,
\* total_critical, total_warnings and total_info are the sizes of the
\* CRITICAL, WARNING and INFO buckets of violations_by_severity.
C27_TotalsAreBucketSizes ==
    Analyzed =>
        /\ analysis.total_critical = Len(analysis.violations_by_severity.CRITICAL)
        /\ analysis.total_warnings = Len(analysis.violations_by_severity.WARNING)
        /\ analysis.total_info = Len(analysis.violations_by_severity.INFO)

\* a rule with the severity Critical is counted in total_critical and is in
\* no bucket
C27_MixedCaseCounted ==
    /\ Analyzed
    /\ deals_data = <<deal_malformed, deal_three_critical>>
    /\ analysis.violations[1].severity = <<"C","r","i","t","i","c","a","l">>
    /\ analysis.total_critical = 4
    /\ Len(analysis.violations_by_severity.CRITICAL) = 3

-----------------------------------------------------------------------------
(* Properties of one loader used for several contexts.                     *)

ContextOf(c) == [user_id |-> loading[c].user_id, org_id |-> loading[c].org_id]

\* the last call began when no other call was at an await, and has returned
LastCallRanAlone ==
    \E c \in Callers :
        /\ loading[c].latest /\ ~loading[c].overlapped
        /\ loading[c].at = "returned"

\* the last call began while another call was at an await; both have returned
LastCallOverlapped ==
    /\ \E c \in Callers : loading[c].latest /\ loading[c].overlapped
    /\ \A c \in Callers : loading[c].at = "returned"

\* the loader holds the overrides and custom rules of the context ctx, as
\* the rows of the database give them
HoldsContextOfCtx ==
    LET org_rows == IF ctx.org_id = "" THEN {}
                    ELSE EnabledCustom("orgId", ctx.org_id)
        user_rows == IF ctx.user_id = "" THEN {}
                     ELSE EnabledCustom("userId", ctx.user_id)
        o == Cardinality(org_rows)
        ids == {db.overrides[i].globalRuleId : i \in 1..Len(db.overrides)}
    IN  /\ Len(custom_rules) = o + Cardinality(user_rows)
        /\ IsCustomGroup(SubSeq(custom_rules, 1, o), "org", org_rows)
        /\ IsCustomGroup(SubSeq(custom_rules, o + 1, Len(custom_rules)),
                         "user", user_rows)
        /\ DOMAIN overrides = {g \in ids : UserRows(g) \cup OrgRows(g) # {}}
        /\ \A g \in DOMAIN overrides :
              \E w \in WinningRows(g) :
                  overrides[g] =
                      [enabled |-> w.enabled,
                       threshold_overrides |-> w.thresholdOverrides,
                       source |-> IF UserRows(g) # {} THEN "user" ELSE "org"]

\* C28: after completed load_context calls that do not overlap, the loader's
\* overrides and custom rules, and so get_effective_rules, are those of the
\* last call's (user_id, org_id): nothing of an earlier context remains, and
\* a call with neither id leaves the unmodified global rules.
C28_OnlyLatestContext ==
    LastCallRanAlone =>
        /\ HoldsContextOfCtx
        /\ get_effective_rules(global_rules, overrides, custom_rules).effective =
              get_effective_rules(StaticRules,
                  load_context(db, ctx.user_id, ctx.org_id).overrides,
                  load_context(db, ctx.user_id, ctx.org_id).custom_rules).effective
        /\ (ctx.user_id = "" /\ ctx.org_id = "") =>
              /\ custom_rules = <<>> /\ overrides = NoOverrides
              /\ get_effective_rules(global_rules, overrides,
                                     custom_rules).effective = StaticRules

\* user u1 in org o1 was loaded first and alone, then user u2: the loader
\* holds the rule of u2 and nothing of u1 or o1
C28_Witness ==
    /\ LastCallRanAlone
    /\ db = db_every_owner
    /\ loading["a"].at = "returned" /\ ~loading["a"].overlapped
    /\ ContextOf("a") = [user_id |-> "u1", org_id |-> "o1"]
    /\ loading["b"].latest
    /\ ContextOf("b") = [user_id |-> "u2", org_id |-> ""]
    /\ Len(custom_rules) = 1 /\ custom_rules[1].id = "OTHER-1"
    /\ DOMAIN overrides = {"SH-002"}

\* the same after a call with neither id
C28_WitnessNoIds ==
    /\ LastCallRanAlone
    /\ db = db_every_owner
    /\ loading["a"].at = "returned"
    /\ ContextOf("a") = [user_id |-> "u1", org_id |-> "o1"]
    /\ loading["b"].latest
    /\ ContextOf("b") = [user_id |-> "", org_id |-> ""]
    /\ custom_rules = <<>> /\ overrides = NoOverrides

\* C29: when two load_context calls for different contexts overlap on one
\* loader, interleaving at its awaits, then once both have returned the
\* loader's overrides and custom rules are those of one of the two contexts,
\* never a mixture.
C29_NoMixture ==
    (LastCallOverlapped /\ ContextOf("a") # ContextOf("b")) =>
        \E c \in Callers :
            LET alone == load_context(db, loading[c].user_id, loading[c].org_id)
            IN  /\ custom_rules = alone.custom_rules
                /\ overrides = alone.overrides

\* the calls for user u1 and for user u2 overlapped: the loader holds the
\* custom rules of both
C29_TenantsMixed ==
    /\ LastCallOverlapped
    /\ ContextOf("a") = [user_id |-> "u1", org_id |-> ""]
    /\ ContextOf("b") = [user_id |-> "u2", org_id |-> ""]
    /\ {custom_rules[i].id : i \in 1..Len(custom_rules)} = {"USER-1", "OTHER-1"}

\* the overlap of a call for user u1 and a call for org o1 leaves the
\* overrides of the context (u1, o1), which nobody asked for
C29_ScopesMixed ==
    /\ LastCallOverlapped
    /\ db = db_every_owner
    /\ ContextOf("a") = [user_id |-> "u1", org_id |-> ""]
    /\ ContextOf("b") = [user_id |-> "", org_id |-> "o1"]
    /\ overrides = load_context(db, "u1", "o1").overrides
    /\ DOMAIN overrides = {"SH-002", "FC-001"}

(* The three date operators over the timeline. *)
DateOperators == {"is_past", "within_days", "more_than_days_away"}

\* the date operators that are true of a value at the evaluation instant
TrueOf(value, days) ==
    {op \in DateOperators : evaluate_operator(op, value, days, now) = True}

\* a call of a date operator on a parseable date and a number of days >= 0
DateCall ==
    /\ eval_op # NotCalled
    /\ eval_op.operator \in DateOperators
    /\ eval_op.value.t = "isostr"
    /\ eval_op.threshold.t = "num" /\ eval_op.threshold.v >= 0

\* C30: at one evaluation instant, for every parseable date value and every
\* days >= 0, exactly one of is_past, within_days and more_than_days_away is
\* true: no gap and no overlap, so a date on the current day is classified by
\* one of them.
C30_DateOperatorsPartition ==
    DateCall =>
        /\ Cardinality(TrueOf(eval_op.value, eval_op.threshold)) = 1
        /\ eval_op.result =
              Bool(eval_op.operator \in TrueOf(eval_op.value, eval_op.threshold))

\* today's date, seen later on the same day: not past, not within the next
\* days, not further away
C30_EarlierTodayUnclassified ==
    /\ DateCall
    /\ now = TicksPerDay - 1
    /\ eval_op.operator = "within_days"
    /\ eval_op.value = today
    /\ eval_op.threshold = Num(1)
    /\ eval_op.result = False
    /\ TrueOf(eval_op.value, eval_op.threshold) = {}

\* a date with a time later today is within the next days
C30_LaterTodayClassified ==
    /\ DateCall
    /\ now = 0
    /\ eval_op.operator = "within_days"
    /\ eval_op.value = today_late
    /\ eval_op.result = True
    /\ TrueOf(eval_op.value, eval_op.threshold) = {"within_days"}

====
